---------------------------- MODULE Spec2Model ----------------------------
(***************************************************************************)
(* A model of the load-shedding status views of sheddr-user:               *)
(*   StatusCheck          src/src/components/StatusCheck.tsx               *)
(*   LoadSheddingStatus   src/unnamed/part_005                             *)
(*                                                                         *)
(* Time.  A JavaScript Date is modelled as a whole number of seconds since *)
(* a Sunday 00:00:00 local time (the code never looks at milliseconds      *)
(* except through differences of two Dates built in the same statement     *)
(* run, which are whole seconds apart up to the sub-second drift of        *)
(* `new Date()`).  Local time is naive: no daylight-saving shift.          *)
(*                                                                         *)
(* Strings.  A time string "18:00" is the sequence of its characters       *)
(* <<"1","8",":","0","0">>, so that the code's string comparisons, split   *)
(* and parseInt are computed the way JavaScript computes them.  Labels     *)
(* that are only displayed are TLA+ strings.                               *)
(***************************************************************************)
EXTENDS Integers, Sequences, FiniteSets, TLC

VARIABLES
    view,               \* which component is mounted
    now,                \* the wall clock, what `new Date()` returns
    agenda,             \* the later instants at which the model lets the clock be read
    schedules,          \* the "schedules" collection of the document store
    selectedSuburb,     \* useState: selectedSuburb
    currentSchedule,    \* useState: currentSchedule
    timeRemaining,      \* useState: timeRemaining
    intervalSince,      \* when the countdown interval was set up or last fired
    loading,            \* useState: loading (StatusCheck only)
    upcomingSchedules,  \* useState: upcomingSchedules (LoadSheddingStatus only)
    calls,              \* async calls suspended at `await getDocs(q)`
    toasts,             \* the toast.error messages shown so far
    probe,              \* last application of a time utility (SpecTimeUtil)
    weeklySchedules,    \* useState: weeklySchedules (WeeklyView only)
    filters,            \* useState: filters (ScheduleSearch only)
    scheduleList        \* useState: schedules (ScheduleSearch only)

vars == <<view, now, agenda, schedules, selectedSuburb, currentSchedule,
          timeRemaining, intervalSince, loading, upcomingSchedules, calls,
          toasts, probe, weeklySchedules, filters, scheduleList>>

\* the state of the views other than the two status views
otherViews == <<weeklySchedules, filters, scheduleList>>

---------------------------------------------------------------------------
(* Bounds of the model *)

MaxInFlight == 2
MaxMinutes == 1510
MaxSessions == 4

---------------------------------------------------------------------------
(* Values *)

NULL == [null |-> TRUE]

\* Number.NaN, and the time value of an Invalid Date; no Date or difference
\* of the model comes near it.
NaN == 0 - 2000000000

Min(a, b) == IF a <= b THEN a ELSE b

\* Math.floor(a / b) for b > 0
Floor(a, b) == a \div b

\* JavaScript's a % b for b > 0: the sign follows the dividend
JsRem(a, b) == IF a >= 0 THEN a % b ELSE 0 - ((0 - a) % b)

---------------------------------------------------------------------------
(* Characters and strings *)

Digits == <<"0", "1", "2", "3", "4", "5", "6", "7", "8", "9">>

IsDigit(c) == \E i \in 1..10 : Digits[i] = c

DigitVal(c) == (CHOOSE i \in 1..10 : Digits[i] = c) - 1

\* UTF-16 code unit of the characters a time string is made of: this is the
\* order of the relational operators <=, > on strings
CodeUnit(c) == IF IsDigit(c) THEN 48 + DigitVal(c) ELSE 58

\* ICU root collation, the order of String.prototype.localeCompare:
\* punctuation sorts before the digits
CollationKey(c) == IF IsDigit(c) THEN 48 + DigitVal(c) ELSE 0

RECURSIVE StrCompare(_, _, _)
\* -1, 0, 1: lexicographic comparison of a and b, by code unit or (collate)
\* by collation key
StrCompare(collate, a, b) ==
    IF a = <<>> /\ b = <<>> THEN 0
    ELSE IF a = <<>> THEN 0 - 1
    ELSE IF b = <<>> THEN 1
    ELSE LET ka == IF collate THEN CollationKey(Head(a)) ELSE CodeUnit(Head(a))
             kb == IF collate THEN CollationKey(Head(b)) ELSE CodeUnit(Head(b))
         IN  IF ka < kb THEN 0 - 1
             ELSE IF ka > kb THEN 1
             ELSE StrCompare(collate, Tail(a), Tail(b))

\* a <= b on strings
StrLeq(a, b) == StrCompare(FALSE, a, b) <= 0

\* a > b on strings
StrGt(a, b) == StrCompare(FALSE, a, b) > 0

\* a.localeCompare(b)
localeCompare(a, b) == StrCompare(TRUE, a, b)

RECURSIVE SplitColon(_)
\* s.split(':')
SplitColon(s) ==
    IF \A i \in 1..Len(s) : s[i] # ":" THEN <<s>>
    ELSE LET k == CHOOSE i \in 1..Len(s) :
                      s[i] = ":" /\ \A j \in 1..(i - 1) : s[j] # ":"
         IN  <<SubSeq(s, 1, k - 1)>> \o SplitColon(SubSeq(s, k + 1, Len(s)))

RECURSIVE DigitsValue(_, _)
DigitsValue(acc, s) ==
    IF s = <<>> \/ ~IsDigit(Head(s)) THEN acc
    ELSE DigitsValue(10 * acc + DigitVal(Head(s)), Tail(s))

\* parseInt(s): the value of the leading run of digits, NaN when there is none
parseInt(s) ==
    IF s = <<>> \/ ~IsDigit(Head(s)) THEN NaN ELSE DigitsValue(0, s)

\* const [hours, minutes] = time.split(':'), each through parseInt; a missing
\* field is undefined and parseInt(undefined) is NaN
ParsedFields(time) ==
    LET parts == SplitColon(time)
    IN  [hours   |-> parseInt(parts[1]),
         minutes |-> IF Len(parts) >= 2 THEN parseInt(parts[2]) ELSE NaN]

\* the '2-digit' rendering of an hour or a minute
Pad2(n) == <<Digits[(n \div 10) + 1], Digits[(n % 10) + 1]>>

\* `${n}` of a number
NumText(n) == IF n = NaN THEN "NaN" ELSE ToString(n)

---------------------------------------------------------------------------
(* Dates *)

DaySeconds == 24 * 60 * 60

\* Date.prototype.getDay: Sunday is 0
getDay(d) == (d \div DaySeconds) % 7

getHours(d) == (d % DaySeconds) \div 3600

getMinutes(d) == (d % 3600) \div 60

\* d.setHours(h, m, 0): the date of d at h:m:00; out-of-range fields carry
\* over, a NaN field gives an Invalid Date
setHours(d, h, m) ==
    IF d = NaN \/ h = NaN \/ m = NaN THEN NaN
    ELSE (d - (d % DaySeconds)) + h * 3600 + m * 60

\* d.setDate(d.getDate() + n)
addDays(d, n) == IF d = NaN THEN NaN ELSE d + n * DaySeconds

WeekdayNames ==
    <<"Sunday", "Monday", "Tuesday", "Wednesday", "Thursday", "Friday",
      "Saturday">>

\* now.toLocaleDateString('en-US', { weekday: 'long' })
toLocaleDateString(d) == WeekdayNames[getDay(d) + 1]

\* now.toLocaleTimeString('en-US', {hour12: false, hour: '2-digit',
\* minute: '2-digit'}): "HH:MM" on the 00..23 hour cycle
toLocaleTimeString(d) == Pad2(getHours(d)) \o <<":">> \o Pad2(getMinutes(d))

\* days.indexOf(day): -1 for a string that is no weekday name
DayIndexOf(day) ==
    IF \E i \in 1..7 : WeekdayNames[i] = day
    THEN (CHOOSE i \in 1..7 : WeekdayNames[i] = day) - 1
    ELSE 0 - 1

\* a variant that forgets the + 7 which keeps the dividend non-negative
getDayOffset_NoWrap(day, d) == JsRem(DayIndexOf(day) - getDay(d), 7)

\* getDayOffset(day), evaluated when the clock shows d
getDayOffset(day, d) == JsRem(DayIndexOf(day) + 7 - getDay(d), 7)

---------------------------------------------------------------------------
(* Labels *)

\* a variant that prints the hour part also when it is zero
durationLabel_AlwaysHours(minutesLeft) ==
    NumText(Floor(minutesLeft, 60)) \o "h "
    \o NumText(JsRem(minutesLeft, 60)) \o "m"

\* the countdown's label of minutesLeft minutes, without the word "remaining"
durationLabel(minutesLeft) ==
    LET hoursLeft        == IF minutesLeft = NaN THEN NaN
                            ELSE Floor(minutesLeft, 60)
        remainingMinutes == IF minutesLeft = NaN THEN NaN
                            ELSE JsRem(minutesLeft, 60)
    IN  (IF hoursLeft # NaN /\ hoursLeft > 0
         THEN NumText(hoursLeft) \o "h " ELSE "")
        \o NumText(remainingMinutes) \o "m"

\* the text the countdown stores when endTime is diff seconds after now
RemainingText(diff) ==
    LET minutesLeft == IF diff = NaN THEN NaN ELSE Floor(diff, 60)
    IN  durationLabel(minutesLeft) \o " remaining"

\* a variant that switches to days only past 24 hours (> for >=)
leadTimeLabel_LateSwitch(diff) ==
    LET hoursUntil   == Floor(diff, 3600)
        minutesUntil == Floor(JsRem(diff, 3600), 60)
    IN  IF hoursUntil > 24
        THEN NumText(Floor(hoursUntil, 24)) \o "d "
             \o NumText(hoursUntil % 24) \o "h"
        ELSE NumText(hoursUntil) \o "h " \o NumText(minutesUntil) \o "m"

\* the label of getTimeUntilStart for a start diff seconds after now
leadTimeLabel(diff) ==
    LET hoursUntil   == IF diff = NaN THEN NaN ELSE Floor(diff, 3600)
        minutesUntil == IF diff = NaN THEN NaN
                        ELSE Floor(JsRem(diff, 3600), 60)
    IN  IF hoursUntil # NaN /\ hoursUntil >= 24
        THEN LET days == Floor(hoursUntil, 24)
             IN  NumText(days) \o "d " \o NumText(hoursUntil % 24) \o "h"
        ELSE NumText(hoursUntil) \o "h " \o NumText(minutesUntil) \o "m"

\* getTimeUntilStart(day, startTime), evaluated when the clock shows d
getTimeUntilStart(day, startTime, d) ==
    LET f         == ParsedFields(startTime)
        start0    == setHours(d, f.hours, f.minutes)
        dayOffset == getDayOffset(day, d)
        start     == addDays(start0, dayOffset)
        diff      == IF start = NaN THEN NaN ELSE start - d
    IN  leadTimeLabel(diff)

---------------------------------------------------------------------------
(* Sessions, documents and the inputs the model draws from *)

\* the time string "HH:MM"
TimeStr(h, m) == Pad2(h) \o <<":">> \o Pad2(m)

Session(day, startTime, endTime, level) ==
    [day |-> day, startTime |-> startTime, endTime |-> endTime,
     level |-> level]

Doc(id, suburbId, sessions) ==
    [id |-> id, suburbId |-> suburbId, sessions |-> sessions]

Suburb(id) == [id |-> id]

Suburbs == {Suburb("s1"), Suburb("s2")}

\* the instant of weekday index day (Sunday 0) at h:m:s
At(day, h, m, s) == day * DaySeconds + h * 3600 + m * 60 + s

Mon1820 == Session("Monday", TimeStr(18, 0), TimeStr(20, 0), 2)
Mon1921 == Session("Monday", TimeStr(19, 0), TimeStr(21, 0), 3)
Mon1920 == Session("Monday", TimeStr(19, 0), TimeStr(20, 0), 1)
Tue1820 == Session("Tuesday", TimeStr(18, 0), TimeStr(20, 0), 1)

\* the session lists the first schedule document of the status model may hold
SessionLists ==
    {<<Mon1820>>, <<Mon1820, Mon1921>>, <<Mon1921, Mon1820>>,
     <<Tue1820, Mon1820>>}

\* the stores of the status model: two documents, the first of suburb s1,
\* the second of the same suburb or of the other one
Databases ==
    {<<Doc("d1", "s1", l1), d2>> :
        l1 \in SessionLists,
        d2 \in {Doc("d2", "s2", <<Mon1921>>), Doc("d2", "s1", <<Mon1920>>)}}

\* the clock readings of a run of the status model: one of these sets, the
\* clock starting at its least instant
Agendas ==
    {{At(1, 19, 0, 30), At(1, 20, 0, 0), At(1, 20, 0, 1)},
     {At(1, 17, 59, 59), At(1, 19, 0, 0), At(2, 19, 0, 0)}}

\* the least instant of a set of instants
Earliest(S) == CHOOSE t \in S : \A u \in S : t <= u

Views == {"StatusCheck", "LoadSheddingStatus"}

---------------------------------------------------------------------------
(* The document store *)

\* getDocs(query(schedulesRef, where("suburbId", "==", suburb.id)))
QueryDocs(suburb) == SelectSeq(schedules, LAMBDA d : d.suburbId = suburb.id)

RECURSIVE Entries(_, _)
\* querySnapshot.forEach(doc => doc.data().sessions.forEach(session => ...)):
\* the sessions in iteration order, each as { id: doc.id, ...session,
\* suburbId: suburb.id }
Entries(docs, suburb) ==
    IF docs = <<>> THEN <<>>
    ELSE LET doc == Head(docs)
         IN  [i \in 1..Len(doc.sessions) |->
                 [id        |-> doc.id,
                  day       |-> doc.sessions[i].day,
                  startTime |-> doc.sessions[i].startTime,
                  endTime   |-> doc.sessions[i].endTime,
                  level     |-> doc.sessions[i].level,
                  suburbId  |-> suburb.id]]
             \o Entries(Tail(docs), suburb)

---------------------------------------------------------------------------
(* Active-session resolution *)

\* a variant that takes endTime as inclusive (>= for >)
IsActive_EndInclusive(session, currentDay, currentTime) ==
    /\ session.day = currentDay
    /\ StrLeq(session.startTime, currentTime)
    /\ StrLeq(currentTime, session.endTime)

\* the condition under which the loop assigns activeSchedule
IsActive(session, currentDay, currentTime) ==
    /\ session.day = currentDay
    /\ StrLeq(session.startTime, currentTime)
    /\ StrGt(session.endTime, currentTime)

RECURSIVE ActiveLoop_FirstWins(_, _, _, _)
\* a variant that keeps the first match instead of the last
ActiveLoop_FirstWins(entries, currentDay, currentTime, activeSchedule) ==
    IF entries = <<>> THEN activeSchedule
    ELSE ActiveLoop_FirstWins(
             Tail(entries), currentDay, currentTime,
             IF activeSchedule = NULL
                /\ IsActive(Head(entries), currentDay, currentTime)
             THEN Head(entries) ELSE activeSchedule)

RECURSIVE ActiveLoop(_, _, _, _)
\* the loop over the entries: every match overwrites activeSchedule
ActiveLoop(entries, currentDay, currentTime, activeSchedule) ==
    IF entries = <<>> THEN activeSchedule
    ELSE ActiveLoop(Tail(entries), currentDay, currentTime,
                    IF IsActive(Head(entries), currentDay, currentTime)
                    THEN Head(entries) ELSE activeSchedule)

\* checkSchedule (StatusCheck), from `let activeSchedule = null` to the end
\* of the loop
checkScheduleActive(docs, suburb, currentDay, currentTime) ==
    ActiveLoop(Entries(docs, suburb), currentDay, currentTime, NULL)

\* checkCurrentSchedule (LoadSheddingStatus), the same loop
checkCurrentScheduleActive(docs, suburb, currentDay, currentTime) ==
    ActiveLoop(Entries(docs, suburb), currentDay, currentTime, NULL)

---------------------------------------------------------------------------
(* Upcoming sessions *)

UpcomingLimit == 3

\* the condition under which checkUpcomingSchedules pushes a session;
\* getDayOffset reads the clock again, which shows d
IsUpcoming(session, currentDay, currentTime, d) ==
    \/ session.day = currentDay /\ StrGt(session.startTime, currentTime)
    \/ getDayOffset(session.day, d) > getDayOffset(currentDay, d)

RECURSIVE UpcomingLoop(_, _, _, _)
\* the loop that fills `upcoming`
UpcomingLoop(entries, currentDay, currentTime, d) ==
    IF entries = <<>> THEN <<>>
    ELSE LET e == Head(entries)
             rest == UpcomingLoop(Tail(entries), currentDay, currentTime, d)
         IN  IF IsUpcoming(e, currentDay, currentTime, d)
             THEN <<[id             |-> e.id,
                     day            |-> e.day,
                     startTime      |-> e.startTime,
                     endTime        |-> e.endTime,
                     level          |-> e.level,
                     suburbId       |-> e.suburbId,
                     timeUntilStart |->
                         getTimeUntilStart(e.day, e.startTime, d)]>> \o rest
             ELSE rest

\* a variant that orders by startTime alone
CompareUpcoming_TimeOnly(a, b, d) == localeCompare(a.startTime, b.startTime)

\* a variant that orders the days by their index in the week, Sunday first,
\* instead of by their distance from today
CompareUpcoming_DayIndex(a, b, d) ==
    LET dayDiff == DayIndexOf(a.day) - DayIndexOf(b.day)
    IN  IF dayDiff = 0 THEN localeCompare(a.startTime, b.startTime)
        ELSE dayDiff

\* the comparator of upcoming.sort
CompareUpcoming(a, b, d) ==
    LET dayDiff == getDayOffset(a.day, d) - getDayOffset(b.day, d)
    IN  IF dayDiff = 0 THEN localeCompare(a.startTime, b.startTime)
        ELSE dayDiff

RECURSIVE InsertSorted(_, _, _)
\* x put behind every element it does not precede
InsertSorted(x, sorted, d) ==
    IF sorted = <<>> THEN <<x>>
    ELSE IF CompareUpcoming(x, Head(sorted), d) < 0 THEN <<x>> \o sorted
    ELSE <<Head(sorted)>> \o InsertSorted(x, Tail(sorted), d)

RECURSIVE SortFrom(_, _, _)
SortFrom(sorted, rest, d) ==
    IF rest = <<>> THEN sorted
    ELSE SortFrom(InsertSorted(Head(rest), sorted, d), Tail(rest), d)

\* upcoming.sort(comparator): Array.prototype.sort is stable
SortUpcoming(upcoming, d) == SortFrom(<<>>, upcoming, d)

\* a variant that keeps one entry too many
SliceUpcoming_OneMore(upcoming) ==
    SubSeq(upcoming, 1, Min(UpcomingLimit + 1, Len(upcoming)))

\* upcoming.slice(0, 3)
SliceUpcoming(upcoming) == SubSeq(upcoming, 1, Min(UpcomingLimit, Len(upcoming)))

---------------------------------------------------------------------------
(* The countdown *)

\* the interval callback of the countdown effect, run when the clock shows d
\* on the session the effect closed over: the new (currentSchedule,
\* timeRemaining)
CountdownTick(schedule, d, remaining) ==
    LET f       == ParsedFields(schedule.endTime)
        endTime == setHours(d, f.hours, f.minutes)
    IN  IF endTime # NaN /\ d > endTime
        THEN [currentSchedule |-> NULL, timeRemaining |-> ""]
        ELSE [currentSchedule |-> schedule,
              timeRemaining   |->
                  RemainingText(IF endTime = NaN THEN NaN ELSE endTime - d)]

---------------------------------------------------------------------------
(* State machine of the status views *)

NoFrame == [fn |-> "none"]

\* the locals an async call holds while it waits for getDocs
Frame(fn, suburb) ==
    [fn          |-> fn,
     suburb      |-> suburb,
     now         |-> now,
     currentDay  |-> toLocaleDateString(now),
     currentTime |-> toLocaleTimeString(now)]

\* the countdown effect depends on [currentSchedule]: it runs again, and sets
\* a new interval up, when a session object is stored (a new object each
\* time); storing null over null changes nothing
EffectRuns(old, new) ==
    IF new # NULL \/ old # NULL THEN now ELSE intervalSince

RemoveAt(seq, i) == SubSeq(seq, 1, i - 1) \o SubSeq(seq, i + 1, Len(seq))

\* useState<ScheduleFilter>({ day: '', level: '', timeRange: '' }), the
\* strings of the three fields as sequences of characters or TLA+ strings
NoFilters == [day |-> "", level |-> <<>>, timeRange |-> ""]

InitCommon ==
    /\ selectedSuburb = NULL
    /\ currentSchedule = NULL
    /\ timeRemaining = ""
    /\ intervalSince = 0
    /\ loading = FALSE
    /\ upcomingSchedules = <<>>
    /\ calls = <<>>
    /\ toasts = {}
    /\ probe = NoFrame
    /\ weeklySchedules = <<>>
    /\ filters = NoFilters
    /\ scheduleList = <<>>

Init ==
    /\ view \in Views
    /\ agenda \in Agendas
    /\ now = Earliest(agenda)
    /\ schedules \in Databases
    /\ InitCommon

\* the clock moves on
Advance ==
    /\ \E t \in agenda : t > now /\ now' = t
    /\ UNCHANGED <<view, agenda, schedules, selectedSuburb, currentSchedule,
                   timeRemaining, intervalSince, loading, upcomingSchedules,
                   calls, toasts, probe, otherViews>>

\* StatusCheck: a suburb button is clicked; checkSchedule runs to its await
checkSchedule(suburb) ==
    /\ view = "StatusCheck"
    /\ Len(calls) < MaxInFlight
    /\ loading' = TRUE
    /\ calls' = Append(calls, Frame("checkSchedule", suburb))
    /\ UNCHANGED <<view, now, agenda, schedules, selectedSuburb,
                   currentSchedule, timeRemaining, intervalSince,
                   upcomingSchedules, toasts, probe, otherViews>>

\* StatusCheck: getDocs resolves and checkSchedule runs to its end
checkScheduleDone(i) ==
    /\ i \in 1..Len(calls)
    /\ calls[i].fn = "checkSchedule"
    /\ LET c == calls[i]
           activeSchedule ==
               checkScheduleActive(QueryDocs(c.suburb), c.suburb,
                                   c.currentDay, c.currentTime)
       IN  /\ currentSchedule' = activeSchedule
           /\ selectedSuburb' = c.suburb
           /\ intervalSince' = EffectRuns(currentSchedule, activeSchedule)
    /\ loading' = FALSE
    /\ calls' = RemoveAt(calls, i)
    /\ UNCHANGED <<view, now, agenda, schedules, timeRemaining,
                   upcomingSchedules, toasts, probe, otherViews>>

\* StatusCheck: getDocs rejects; the catch block reports it
checkScheduleFailed(i) ==
    /\ i \in 1..Len(calls)
    /\ calls[i].fn = "checkSchedule"
    /\ toasts' = toasts \cup {"Error checking schedule"}
    /\ loading' = FALSE
    /\ calls' = RemoveAt(calls, i)
    /\ UNCHANGED <<view, now, agenda, schedules, selectedSuburb,
                   currentSchedule, timeRemaining, intervalSince,
                   upcomingSchedules, probe, otherViews>>

\* LoadSheddingStatus: a suburb is clicked; checkCurrentSchedule runs to its
\* await
checkCurrentSchedule(suburb) ==
    /\ view = "LoadSheddingStatus"
    /\ Len(calls) < MaxInFlight
    /\ calls' = Append(calls, Frame("checkCurrentSchedule", suburb))
    /\ UNCHANGED <<view, now, agenda, schedules, selectedSuburb,
                   currentSchedule, timeRemaining, intervalSince, loading,
                   upcomingSchedules, toasts, probe, otherViews>>

\* LoadSheddingStatus: getDocs resolves; checkCurrentSchedule sets the state
\* and calls checkUpcomingSchedules, which runs to its own await
checkCurrentScheduleDone(i) ==
    /\ i \in 1..Len(calls)
    /\ calls[i].fn = "checkCurrentSchedule"
    /\ LET c == calls[i]
           activeSchedule ==
               checkCurrentScheduleActive(QueryDocs(c.suburb), c.suburb,
                                          c.currentDay, c.currentTime)
       IN  /\ currentSchedule' = activeSchedule
           /\ selectedSuburb' = c.suburb
           /\ intervalSince' = EffectRuns(currentSchedule, activeSchedule)
           /\ calls' = Append(RemoveAt(calls, i),
                              Frame("checkUpcomingSchedules", c.suburb))
    /\ UNCHANGED <<view, now, agenda, schedules, timeRemaining, loading,
                   upcomingSchedules, toasts, probe, otherViews>>

\* LoadSheddingStatus: getDocs of checkCurrentSchedule rejects
checkCurrentScheduleFailed(i) ==
    /\ i \in 1..Len(calls)
    /\ calls[i].fn = "checkCurrentSchedule"
    /\ toasts' = toasts \cup {"Error checking schedule"}
    /\ calls' = RemoveAt(calls, i)
    /\ UNCHANGED <<view, now, agenda, schedules, selectedSuburb,
                   currentSchedule, timeRemaining, intervalSince, loading,
                   upcomingSchedules, probe, otherViews>>

\* LoadSheddingStatus: getDocs of checkUpcomingSchedules resolves; the list
\* is filled, sorted, cut and stored
checkUpcomingSchedulesDone(i) ==
    /\ i \in 1..Len(calls)
    /\ calls[i].fn = "checkUpcomingSchedules"
    /\ LET c == calls[i]
           upcoming ==
               UpcomingLoop(Entries(QueryDocs(c.suburb), c.suburb),
                            c.currentDay, c.currentTime, now)
           sorted == SortUpcoming(upcoming, now)
       IN  upcomingSchedules' = SliceUpcoming(sorted)
    /\ calls' = RemoveAt(calls, i)
    /\ UNCHANGED <<view, now, agenda, schedules, selectedSuburb,
                   currentSchedule, timeRemaining, intervalSince, loading,
                   toasts, probe, otherViews>>

\* LoadSheddingStatus: getDocs of checkUpcomingSchedules rejects
checkUpcomingSchedulesFailed(i) ==
    /\ i \in 1..Len(calls)
    /\ calls[i].fn = "checkUpcomingSchedules"
    /\ toasts' = toasts \cup {"Error checking upcoming schedules"}
    /\ calls' = RemoveAt(calls, i)
    /\ UNCHANGED <<view, now, agenda, schedules, selectedSuburb,
                   currentSchedule, timeRemaining, intervalSince, loading,
                   upcomingSchedules, probe, otherViews>>

\* the countdown interval fires (both views): it exists while currentSchedule
\* is set, and fires a second or more after it was set up or last fired
Tick ==
    /\ currentSchedule # NULL
    /\ now > intervalSince
    /\ LET r == CountdownTick(currentSchedule, now, timeRemaining)
       IN  /\ currentSchedule' = r.currentSchedule
           /\ timeRemaining' = r.timeRemaining
    /\ intervalSince' = now
    /\ UNCHANGED <<view, now, agenda, schedules, selectedSuburb, loading,
                   upcomingSchedules, calls, toasts, probe, otherViews>>

Next ==
    \/ Advance
    \/ \E suburb \in Suburbs : checkSchedule(suburb)
    \/ \E i \in 1..MaxInFlight : checkScheduleDone(i)
    \/ \E i \in 1..MaxInFlight : checkScheduleFailed(i)
    \/ \E suburb \in Suburbs : checkCurrentSchedule(suburb)
    \/ \E i \in 1..MaxInFlight : checkCurrentScheduleDone(i)
    \/ \E i \in 1..MaxInFlight : checkCurrentScheduleFailed(i)
    \/ \E i \in 1..MaxInFlight : checkUpcomingSchedulesDone(i)
    \/ \E i \in 1..MaxInFlight : checkUpcomingSchedulesFailed(i)
    \/ Tick

Spec == Init /\ [][Next]_vars

\* a getDocs that is waited for settles: the call resumes, in its try block
\* or in its catch block
Settles ==
    \E i \in 1..MaxInFlight :
        \/ checkScheduleFailed(i) \/ checkScheduleDone(i)
        \/ checkCurrentScheduleFailed(i) \/ checkCurrentScheduleDone(i)
        \/ checkUpcomingSchedulesFailed(i) \/ checkUpcomingSchedulesDone(i)

\* what the runtime guarantees: time passes, an interval that is set up
\* fires, a request that is waited for settles; the user need not act
Fairness == WF_vars(Advance) /\ WF_vars(Tick) /\ WF_vars(Settles)

\* the real-time runs: the clock is read shortly before a session of
\* Monday evening starts, during it, and a day later
RealTimeAgenda == {At(1, 17, 59, 59), At(1, 19, 0, 0), At(2, 19, 0, 0)}

\* the stores of the real-time runs: those whose first document holds the
\* one session Monday 18:00 to 20:00
RealTimeDatabases == {d \in Databases : d[1].sessions = <<Mon1820>>}

InitRealTime ==
    /\ view \in Views
    /\ agenda = RealTimeAgenda
    /\ now = Earliest(agenda)
    /\ schedules \in RealTimeDatabases
    /\ InitCommon

SpecRealTime == InitRealTime /\ [][Next]_vars /\ Fairness

---------------------------------------------------------------------------
(* The upcoming list of LoadSheddingStatus on a richer store *)

Mon0608 == Session("Monday", TimeStr(6, 0), TimeStr(8, 0), 1)
Mon1012 == Session("Monday", TimeStr(10, 0), TimeStr(12, 0), 2)
Wed0608 == Session("Wednesday", TimeStr(6, 0), TimeStr(8, 0), 2)
Sun0608 == Session("Sunday", TimeStr(6, 0), TimeStr(8, 0), 4)
Tue0002 == Session("Tuesday", TimeStr(0, 30), TimeStr(2, 0), 3)

\* the sessions of suburb s1 in the order the store holds them, unsorted
MasterList == <<Wed0608, Mon1820, Sun0608, Mon0608, Tue0002, Mon1012>>

RECURSIVE Pick(_, _)
\* the elements of seq at the positions in keep, in the order of seq
Pick(seq, keep) ==
    IF seq = <<>> THEN <<>>
    ELSE (IF Len(seq) \in keep THEN Pick(SubSeq(seq, 1, Len(seq) - 1), keep)
                                    \o <<seq[Len(seq)]>>
          ELSE Pick(SubSeq(seq, 1, Len(seq) - 1), keep))

\* the session lists of the upcoming model: at most MaxSessions sessions of
\* the master list, in its order
UpcomingLists ==
    {Pick(MasterList, keep) :
        keep \in {K \in SUBSET (1..Len(MasterList)) :
                      Cardinality(K) <= MaxSessions}}

\* the stores of the upcoming model: the sessions of s1 spread over two
\* documents, the first holding the first two
UpcomingDatabases ==
    {<<Doc("d1", "s1", SubSeq(l, 1, Min(2, Len(l)))),
       Doc("d2", "s1", SubSeq(l, 3, Len(l)))>> : l \in UpcomingLists}

\* clock readings of the upcoming model: within Monday morning; over the
\* midnight from Monday to Tuesday; over the end of the week
UpcomingAgendas ==
    {{At(1, 10, 0, 0), At(1, 10, 0, 30)},
     {At(1, 23, 59, 59), At(2, 0, 0, 0)},
     {At(6, 23, 59, 59), At(7, 0, 0, 1)}}

InitUpcoming ==
    /\ view = "LoadSheddingStatus"
    /\ agenda \in UpcomingAgendas
    /\ now = Earliest(agenda)
    /\ schedules \in UpcomingDatabases
    /\ InitCommon

NextUpcoming ==
    \/ Advance
    \/ checkCurrentSchedule(Suburb("s1"))
    \/ \E i \in 1..MaxInFlight : checkCurrentScheduleDone(i)
    \/ \E i \in 1..MaxInFlight : checkUpcomingSchedulesDone(i)
    \/ \E i \in 1..MaxInFlight : checkUpcomingSchedulesFailed(i)
    \/ Tick

SpecUpcoming == InitUpcoming /\ [][NextUpcoming]_vars

---------------------------------------------------------------------------
(* The time utilities on their own: a run applies one of them once *)

\* one instant on each day of the week, Sunday to Saturday
UtilInstants == {At(day, 10, 0, 0) : day \in 0..6}

\* the offsets, in seconds past the whole minute, at which a lead time is
\* measured
UtilSeconds == {0, 59}

InitUtil ==
    /\ view = "LoadSheddingStatus"
    /\ agenda = {}
    /\ now \in UtilInstants
    /\ schedules = <<>>
    /\ InitCommon

\* the countdown formats minutesLeft minutes
ApplyDurationLabel ==
    /\ probe = NoFrame
    /\ \E m \in 0..MaxMinutes :
           probe' = [fn |-> "durationLabel", arg |-> m,
                     out |-> durationLabel(m)]
    /\ UNCHANGED <<view, now, agenda, schedules, selectedSuburb,
                   currentSchedule, timeRemaining, intervalSince, loading,
                   upcomingSchedules, calls, toasts, otherViews>>

\* getTimeUntilStart formats a start that is m minutes and sec seconds away
ApplyLeadTimeLabel ==
    /\ probe = NoFrame
    /\ \E m \in 0..MaxMinutes, sec \in UtilSeconds :
           probe' = [fn |-> "leadTimeLabel", arg |-> m, sec |-> sec,
                     out |-> leadTimeLabel(60 * m + sec)]
    /\ UNCHANGED <<view, now, agenda, schedules, selectedSuburb,
                   currentSchedule, timeRemaining, intervalSince, loading,
                   upcomingSchedules, calls, toasts, otherViews>>

\* getDayOffset(day) is called for a weekday name
ApplyGetDayOffset ==
    /\ probe = NoFrame
    /\ \E i \in 1..7 :
           probe' = [fn |-> "getDayOffset", arg |-> WeekdayNames[i],
                     out |-> getDayOffset(WeekdayNames[i], now)]
    /\ UNCHANGED <<view, now, agenda, schedules, selectedSuburb,
                   currentSchedule, timeRemaining, intervalSince, loading,
                   upcomingSchedules, calls, toasts, otherViews>>

NextUtil == ApplyDurationLabel \/ ApplyLeadTimeLabel \/ ApplyGetDayOffset

SpecTimeUtil == InitUtil /\ [][NextUtil]_vars

---------------------------------------------------------------------------
(* WeeklyView: the week of a suburb *)

\* const days, the order of the columns
days ==
    <<"Monday", "Tuesday", "Wednesday", "Thursday", "Friday", "Saturday",
      "Sunday">>

\* a variant that loses a session whose day and startTime an earlier one has
GroupOf_FirstPerStart(entries, day) ==
    LET firsts == {k \in 1..Len(entries) :
                      /\ entries[k].day = day
                      /\ \A j \in 1..(k - 1) :
                             ~(/\ entries[j].day = day
                               /\ entries[j].startTime = entries[k].startTime)}
    IN  Pick(entries, firsts)

\* schedulesByDay[day] after the loop: the sessions pushed to it, in
\* iteration order
GroupOf(entries, day) == SelectSeq(entries, LAMBDA e : e.day = day)

RECURSIVE InsertByStartTime(_, _)
\* x put behind every element it does not precede
InsertByStartTime(x, sorted) ==
    IF sorted = <<>> THEN <<x>>
    ELSE IF localeCompare(x.startTime, Head(sorted).startTime) < 0
         THEN <<x>> \o sorted
    ELSE <<Head(sorted)>> \o InsertByStartTime(x, Tail(sorted))

RECURSIVE SortedFrom(_, _)
SortedFrom(sorted, rest) ==
    IF rest = <<>> THEN sorted
    ELSE SortedFrom(InsertByStartTime(Head(rest), sorted), Tail(rest))

\* a variant that leaves the group as the loop filled it
SortByStartTime_AsPushed(list) == list

\* schedulesByDay[day].sort((a, b) => a.startTime.localeCompare(b.startTime));
\* Array.prototype.sort is stable
SortByStartTime(list) == SortedFrom(<<>>, list)

\* a variant that makes a group only for the days that have a session
buildWeek_DaysWithSessions(entries) ==
    LET all == [k \in 1..7 |->
                   [day       |-> days[k],
                    schedules |-> SortByStartTime(GroupOf(entries, days[k]))]]
    IN  SelectSeq(all, LAMBDA g : g.schedules # <<>>)

\* weeklyData: days.map(day => ({ day, schedules: schedulesByDay[day] }))
buildWeek(entries) ==
    [k \in 1..7 |->
        [day       |-> days[k],
         schedules |-> SortByStartTime(GroupOf(entries, days[k]))]]

\* schedulesByDay[schedule.day].push(schedule) throws a TypeError when the
\* day is none of the keys set up from days
PushThrows(entries) ==
    \E k \in 1..Len(entries) : \A j \in 1..7 : days[j] # entries[k].day

\* WeeklyView: a suburb button is clicked; the suburb is selected and
\* fetchWeeklySchedules runs to its await
fetchWeeklySchedules(suburb) ==
    /\ view = "WeeklyView"
    /\ Len(calls) < MaxInFlight
    /\ selectedSuburb' = suburb
    /\ loading' = TRUE
    /\ calls' = Append(calls, Frame("fetchWeeklySchedules", suburb))
    /\ UNCHANGED <<view, now, agenda, schedules, currentSchedule,
                   timeRemaining, intervalSince, upcomingSchedules, toasts,
                   probe, otherViews>>

\* WeeklyView: getDocs resolves and fetchWeeklySchedules runs to its end, by
\* storing the week or, when a push throws, through the catch block
fetchWeeklySchedulesDone(i) ==
    /\ i \in 1..Len(calls)
    /\ calls[i].fn = "fetchWeeklySchedules"
    /\ LET c       == calls[i]
           entries == Entries(QueryDocs(c.suburb), c.suburb)
       IN  IF PushThrows(entries)
           THEN /\ toasts' = toasts \cup {"Error loading schedules"}
                /\ UNCHANGED weeklySchedules
           ELSE /\ weeklySchedules' = buildWeek(entries)
                /\ UNCHANGED toasts
    /\ loading' = FALSE
    /\ calls' = RemoveAt(calls, i)
    /\ UNCHANGED <<view, now, agenda, schedules, selectedSuburb,
                   currentSchedule, timeRemaining, intervalSince,
                   upcomingSchedules, probe, filters, scheduleList>>

\* WeeklyView: getDocs rejects; the catch block reports it
fetchWeeklySchedulesFailed(i) ==
    /\ i \in 1..Len(calls)
    /\ calls[i].fn = "fetchWeeklySchedules"
    /\ toasts' = toasts \cup {"Error loading schedules"}
    /\ loading' = FALSE
    /\ calls' = RemoveAt(calls, i)
    /\ UNCHANGED <<view, now, agenda, schedules, selectedSuburb,
                   currentSchedule, timeRemaining, intervalSince,
                   upcomingSchedules, probe, otherViews>>

Thu1012 == Session("Thursday", TimeStr(10, 0), TimeStr(12, 0), 4)
Funday0608 == Session("Funday", TimeStr(6, 0), TimeStr(8, 0), 1)

\* the sessions of suburb s1 in the order the store holds them: days out of
\* order, overlapping windows, two sessions with one start, one session
\* twice, and one whose day is no weekday name
WeeklyMasterList ==
    <<Mon1820, Wed0608, Mon0608, Mon1921, Sun0608, Mon1920, Mon1820,
      Funday0608>>

\* the session lists of the weekly model: at most MaxSessions sessions of
\* the master list, in its order
WeeklyLists ==
    {Pick(WeeklyMasterList, keep) :
        keep \in {K \in SUBSET (1..Len(WeeklyMasterList)) :
                      Cardinality(K) <= MaxSessions}}

\* the stores of the weekly model: the sessions of s1 spread over two
\* documents, and one document of s2
WeeklyDatabases ==
    {<<Doc("d1", "s1", SubSeq(l, 1, Min(2, Len(l)))),
       Doc("d2", "s1", SubSeq(l, 3, Len(l))),
       Doc("d3", "s2", <<Thu1012>>)>> : l \in WeeklyLists}

InitWeekly ==
    /\ view = "WeeklyView"
    /\ agenda = {}
    /\ now = At(1, 10, 0, 0)
    /\ schedules \in WeeklyDatabases
    /\ InitCommon

NextWeekly ==
    \/ \E suburb \in Suburbs : fetchWeeklySchedules(suburb)
    \/ \E i \in 1..MaxInFlight : fetchWeeklySchedulesDone(i)
    \/ \E i \in 1..MaxInFlight : fetchWeeklySchedulesFailed(i)

SpecWeekly == InitWeekly /\ [][NextWeekly]_vars

---------------------------------------------------------------------------
(* ScheduleSearch: the sessions of a suburb, filtered *)

\* days.indexOf(day) in const days of ScheduleSearch, Monday first; -1 for a
\* string that is none of them
indexOf(day) ==
    IF \E k \in 1..7 : days[k] = day
    THEN (CHOOSE k \in 1..7 : days[k] = day) - 1
    ELSE 0 - 1

\* the comparator of filteredSchedules.sort
CompareByDayAndTime(a, b) ==
    LET dayDiff == indexOf(a.day) - indexOf(b.day)
    IN  IF dayDiff = 0 THEN localeCompare(a.startTime, b.startTime)
        ELSE dayDiff

RECURSIVE InsertByDayAndTime(_, _)
\* x put behind every element it does not precede
InsertByDayAndTime(x, sorted) ==
    IF sorted = <<>> THEN <<x>>
    ELSE IF CompareByDayAndTime(x, Head(sorted)) < 0 THEN <<x>> \o sorted
    ELSE <<Head(sorted)>> \o InsertByDayAndTime(x, Tail(sorted))

RECURSIVE SortedByDayAndTimeFrom(_, _)
SortedByDayAndTimeFrom(sorted, rest) ==
    IF rest = <<>> THEN sorted
    ELSE SortedByDayAndTimeFrom(InsertByDayAndTime(Head(rest), sorted),
                                Tail(rest))

\* filteredSchedules.sort((a, b) => ...); Array.prototype.sort is stable
SortByDayAndTime(list) == SortedByDayAndTimeFrom(<<>>, list)

\* a variant that compares the day also when no day is chosen
FilterDay_AlwaysCompares(list, f) ==
    SelectSeq(list, LAMBDA s : s.day = f.day)

\* if (filters.day) filteredSchedules = filteredSchedules.filter(...)
FilterDay(list, f) ==
    IF f.day # "" THEN SelectSeq(list, LAMBDA s : s.day = f.day) ELSE list

\* a variant that lets every level through
FilterLevel_Ignored(list, f) == list

\* if (filters.level) ... s.level === parseInt(filters.level); a NaN equals
\* no level
FilterLevel(list, f) ==
    IF f.level # <<>>
    THEN SelectSeq(list, LAMBDA s : /\ parseInt(f.level) # NaN
                                    /\ s.level = parseInt(f.level))
    ELSE list

\* a variant whose evening ends at midnight
InTimeRange_EveningToMidnight(s, timeRange) ==
    LET time == parseInt(SplitColon(s.startTime)[1])
    IN  CASE timeRange = "morning"   -> time # NaN /\ time >= 4 /\ time < 12
          [] timeRange = "afternoon" -> time # NaN /\ time >= 12 /\ time < 18
          [] timeRange = "evening"   -> time # NaN /\ time >= 18
          [] OTHER                   -> TRUE

\* a variant whose default branch lets nothing through
InTimeRange_UnknownRejects(s, timeRange) ==
    LET time == parseInt(SplitColon(s.startTime)[1])
    IN  CASE timeRange = "morning"   -> time # NaN /\ time >= 4 /\ time < 12
          [] timeRange = "afternoon" -> time # NaN /\ time >= 12 /\ time < 18
          [] timeRange = "evening"   -> time # NaN /\ (time >= 18 \/ time < 4)
          [] OTHER                   -> FALSE

\* the callback of the time range filter: the switch on filters.timeRange
\* over time = parseInt(s.startTime.split(':')[0]); every comparison with a
\* NaN is false
InTimeRange(s, timeRange) ==
    LET time == parseInt(SplitColon(s.startTime)[1])
    IN  CASE timeRange = "morning"   -> time # NaN /\ time >= 4 /\ time < 12
          [] timeRange = "afternoon" -> time # NaN /\ time >= 12 /\ time < 18
          [] timeRange = "evening"   -> time # NaN /\ (time >= 18 \/ time < 4)
          [] OTHER                   -> TRUE

\* if (filters.timeRange) filteredSchedules = filteredSchedules.filter(...)
FilterTimeRange(list, f) ==
    IF f.timeRange # ""
    THEN SelectSeq(list, LAMBDA s : InTimeRange(s, f.timeRange))
    ELSE list

\* filteredSchedules after the three filters, before the sort
applyFilters(scheduleData, f) ==
    FilterTimeRange(FilterLevel(FilterDay(scheduleData, f), f), f)

\* the locals a fetchSchedules call holds while it waits for getDocs: its
\* argument and the filters of the render that made the function
SearchFrame(suburb, f) ==
    [fn |-> "fetchSchedules", suburb |-> suburb, filters |-> f]

\* ScheduleSearch: a suburb button is clicked; the suburb is selected and
\* fetchSchedules runs to its await (every suburb has an id)
fetchSchedules(suburb) ==
    /\ view = "ScheduleSearch"
    /\ Len(calls) < MaxInFlight
    /\ selectedSuburb' = suburb
    /\ loading' = TRUE
    /\ calls' = Append(calls, SearchFrame(suburb, filters))
    /\ UNCHANGED <<view, now, agenda, schedules, currentSchedule,
                   timeRemaining, intervalSince, upcomingSchedules, toasts,
                   probe, otherViews>>

\* the values the three selects of the filter panel offer
FilterChoices ==
    {<<"day", "">>, <<"day", "Monday">>,
     <<"level", <<>>>>, <<"level", <<"2">>>>,
     <<"timeRange", "">>, <<"timeRange", "morning">>,
     <<"timeRange", "afternoon">>, <<"timeRange", "evening">>}

\* ScheduleSearch: a select of the filter panel, which is shown once a
\* suburb is selected, changes; the new filters are set and fetchSchedules,
\* the function of the current render, runs to its await with the filters
\* of that render
handleFilterChange(key, value) ==
    /\ view = "ScheduleSearch"
    /\ selectedSuburb # NULL
    /\ Len(calls) < MaxInFlight
    /\ filters' = [filters EXCEPT ![key] = value]
    /\ loading' = TRUE
    /\ calls' = Append(calls, SearchFrame(selectedSuburb, filters))
    /\ UNCHANGED <<view, now, agenda, schedules, selectedSuburb,
                   currentSchedule, timeRemaining, intervalSince,
                   upcomingSchedules, toasts, probe, weeklySchedules,
                   scheduleList>>

\* ScheduleSearch: getDocs resolves and fetchSchedules runs to its end
fetchSchedulesDone(i) ==
    /\ i \in 1..Len(calls)
    /\ calls[i].fn = "fetchSchedules"
    /\ LET c    == calls[i]
           docs == QueryDocs(c.suburb)
       IN  scheduleList' =
               IF docs = <<>> THEN <<>>
               ELSE SortByDayAndTime(
                        applyFilters(Entries(docs, c.suburb), c.filters))
    /\ loading' = FALSE
    /\ calls' = RemoveAt(calls, i)
    /\ UNCHANGED <<view, now, agenda, schedules, selectedSuburb,
                   currentSchedule, timeRemaining, intervalSince,
                   upcomingSchedules, toasts, probe, weeklySchedules,
                   filters>>

\* error.message of the Error getDocs rejects with
FirestoreMessage == "Missing or insufficient permissions."

\* ScheduleSearch: getDocs rejects; the catch block reports the message and
\* empties the list
fetchSchedulesFailed(i) ==
    /\ i \in 1..Len(calls)
    /\ calls[i].fn = "fetchSchedules"
    /\ toasts' = toasts \cup {FirestoreMessage}
    /\ scheduleList' = <<>>
    /\ loading' = FALSE
    /\ calls' = RemoveAt(calls, i)
    /\ UNCHANGED <<view, now, agenda, schedules, selectedSuburb,
                   currentSchedule, timeRemaining, intervalSince,
                   upcomingSchedules, probe, weeklySchedules, filters>>

Mon2330 == Session("Monday", TimeStr(23, 30), TimeStr(1, 0), 2)
Mon0204 == Session("Monday", TimeStr(2, 0), TimeStr(4, 0), 3)
Mon1819 == Session("Monday", TimeStr(18, 0), TimeStr(19, 0), 2)
Tue0359 == Session("Tuesday", TimeStr(3, 59), TimeStr(6, 0), 2)
Tue1159 == Session("Tuesday", TimeStr(11, 59), TimeStr(14, 0), 2)
Tue1759 == Session("Tuesday", TimeStr(17, 59), TimeStr(20, 0), 1)
Sun0406 == Session("Sunday", TimeStr(4, 0), TimeStr(6, 0), 2)
Sun1214 == Session("Sunday", TimeStr(12, 0), TimeStr(14, 0), 2)

\* the sessions of suburb s1 in the order the store holds them: days and
\* times out of order, starts late in the evening, after midnight and on
\* both sides of the hours 4, 12 and 18, two sessions with one start, and
\* one session twice
SearchMasterList ==
    <<Wed0608, Mon2330, Mon1012, Mon0204, Mon1820, Mon1819, Sun0406,
      Tue0359, Tue1159, Sun1214, Tue1759, Mon1012>>

\* how many of the sessions of the master list a store holds
SearchSizes == {0, 3, 6, 12}

\* the stores of the search model: the first sessions of the master list
\* spread over two documents of s1; s2 has no document
SearchDatabases ==
    {<<Doc("d1", "s1", SubSeq(SearchMasterList, 1, Min(2, n))),
       Doc("d2", "s1", SubSeq(SearchMasterList, 3, n))>> : n \in SearchSizes}

InitSearch ==
    /\ view = "ScheduleSearch"
    /\ agenda = {}
    /\ now = At(1, 10, 0, 0)
    /\ schedules \in SearchDatabases
    /\ InitCommon

NextSearch ==
    \/ \E suburb \in Suburbs : fetchSchedules(suburb)
    \/ \E choice \in FilterChoices : handleFilterChange(choice[1], choice[2])
    \/ \E i \in 1..MaxInFlight : fetchSchedulesDone(i)
    \/ \E i \in 1..MaxInFlight : fetchSchedulesFailed(i)

SpecSearch == InitSearch /\ [][NextSearch]_vars

\* the schedule search used one step at a time: a suburb is clicked or a
\* filter is changed only while no fetch is in flight
NextSearchSerial ==
    \/ \E suburb \in Suburbs : calls = <<>> /\ fetchSchedules(suburb)
    \/ \E choice \in FilterChoices :
           calls = <<>> /\ handleFilterChange(choice[1], choice[2])
    \/ fetchSchedulesDone(1)
    \/ fetchSchedulesFailed(1)

SpecSearchSerial == InitSearch /\ [][NextSearchSerial]_vars

---------------------------------------------------------------------------
(* Reminders: scheduleNotifications of LoadSheddingStatus and ScheduleSearch *)

\* LoadSheddingStatus: notifyTime of a session of upcomingSchedules when the
\* clock shows d: start.setHours(...), start.setDate(getDate() + dayOffset),
\* new Date(start.getTime() - 30 * 60000)
reminderTimeStatus(schedule, d) ==
    LET f     == ParsedFields(schedule.startTime)
        start == addDays(setHours(d, f.hours, f.minutes),
                         getDayOffset(schedule.day, d))
    IN  IF start = NaN THEN NaN ELSE start - 30 * 60

\* ScheduleSearch: scheduleTime of a session of schedules when the clock
\* shows d: scheduleTime.setHours(parseInt(hours), parseInt(minutes) - 30, 0)
reminderTimeSearch(schedule, d) ==
    LET f == ParsedFields(schedule.startTime)
    IN  setHours(d, f.hours, IF f.minutes = NaN THEN NaN ELSE f.minutes - 30)

\* the timers scheduleNotifications sets when the clock shows d: one for
\* every session of the list whose reminder time is later; a timer set at
\* setAt runs out at the reminder time (an Invalid Date is later than
\* nothing)
scheduleNotifications(inView, list, d) ==
    LET at(k) == IF inView = "ScheduleSearch"
                 THEN reminderTimeSearch(list[k], d)
                 ELSE reminderTimeStatus(list[k], d)
    IN  {[session |-> list[k], setAt |-> d, at |-> at(k)] :
            k \in {j \in 1..Len(list) : at(j) # NaN /\ at(j) > d}}

\* the Enable Notifications button, enabled until notifications are on, is
\* clicked: the handler runs to its await with the list of its render
requestNotifications ==
    /\ view \in {"LoadSheddingStatus", "ScheduleSearch"}
    /\ probe = NoFrame
    /\ Len(calls) < MaxInFlight
    /\ calls' = Append(calls,
                       [fn   |-> "requestNotifications",
                        list |-> IF view = "ScheduleSearch" THEN scheduleList
                                 ELSE upcomingSchedules])
    /\ UNCHANGED <<view, now, agenda, schedules, selectedSuburb,
                   currentSchedule, timeRemaining, intervalSince, loading,
                   upcomingSchedules, toasts, probe, otherViews>>

\* Notification.requestPermission() resolves to 'granted': notifications are
\* on and scheduleNotifications sets its timers
permissionGranted(i) ==
    /\ i \in 1..Len(calls)
    /\ calls[i].fn = "requestNotifications"
    /\ probe' = [fn     |-> "scheduleNotifications",
                 timers |-> (IF probe = NoFrame THEN {} ELSE probe.timers)
                                \cup scheduleNotifications(view, calls[i].list,
                                                           now)]
    /\ toasts' = toasts \cup {"Notifications enabled"}
    /\ calls' = RemoveAt(calls, i)
    /\ UNCHANGED <<view, now, agenda, schedules, selectedSuburb,
                   currentSchedule, timeRemaining, intervalSince, loading,
                   upcomingSchedules, otherViews>>

\* Notification.requestPermission() resolves to another answer
permissionDenied(i) ==
    /\ i \in 1..Len(calls)
    /\ calls[i].fn = "requestNotifications"
    /\ toasts' = toasts \cup {"Notification permission denied"}
    /\ calls' = RemoveAt(calls, i)
    /\ UNCHANGED <<view, now, agenda, schedules, selectedSuburb,
                   currentSchedule, timeRemaining, intervalSince, loading,
                   upcomingSchedules, probe, otherViews>>

Mon1745 == Session("Monday", TimeStr(17, 45), TimeStr(19, 0), 1)

\* the stores of the reminder model: one document of suburb s1
ReminderDatabases ==
    {<<Doc("d1", "s1", l)>> :
        l \in {<<Wed0608, Mon1820>>, <<Mon1820, Tue0002>>, <<Mon1745>>}}

\* clock readings of the reminder model: Monday morning, one second before
\* and exactly half an hour before a session starts at 18:00, and the next
\* morning
ReminderAgenda ==
    {At(1, 10, 0, 0), At(1, 17, 29, 59), At(1, 17, 30, 0), At(2, 10, 0, 0)}

InitReminders ==
    /\ view \in {"LoadSheddingStatus", "ScheduleSearch"}
    /\ agenda = ReminderAgenda
    /\ now = Earliest(agenda)
    /\ schedules \in ReminderDatabases
    /\ InitCommon

NextReminders ==
    \/ Advance
    \/ checkCurrentSchedule(Suburb("s1"))
    \/ \E i \in 1..MaxInFlight : checkCurrentScheduleDone(i)
    \/ \E i \in 1..MaxInFlight : checkUpcomingSchedulesDone(i)
    \/ fetchSchedules(Suburb("s1"))
    \/ \E i \in 1..MaxInFlight : fetchSchedulesDone(i)
    \/ requestNotifications
    \/ \E i \in 1..MaxInFlight : permissionGranted(i)
    \/ \E i \in 1..MaxInFlight : permissionDenied(i)

SpecReminders == InitReminders /\ [][NextReminders]_vars

---------------------------------------------------------------------------
(* ScheduleSearch: the filter step on its own *)

\* one session for every hour of the day, on the half hour for the odd
\* hours, spread over the week
AllHoursList ==
    [k \in 1..24 |->
        Session(days[((k - 1) % 7) + 1],
                TimeStr(k - 1, IF k % 2 = 0 THEN 30 ELSE 0),
                TimeStr(k % 24, 0),
                1 + (k % 4))]

\* the stores the filter step is applied to: those of the search model and
\* one with a session for every hour
FilterDatabases ==
    SearchDatabases
        \cup {<<Doc("d1", "s1", SubSeq(AllHoursList, 1, 2)),
                Doc("d2", "s1", SubSeq(AllHoursList, 3, 24))>>}

\* values of the level field: none, a level, and two strings that are no
\* integer (handleFilterChange takes any string)
LevelValues == {<<>>, <<"2">>, <<"x">>, <<"2", "x">>}

\* values of the timeRange field that are none of the three names
UnknownRanges == {"night", "Morning"}

\* the filters the filter step is applied with
FilterValues ==
    [day       : {"", "Monday"},
     level     : LevelValues,
     timeRange : {"", "morning", "afternoon", "evening"} \cup UnknownRanges]

\* the filter step of fetchSchedules runs on the sessions of s1 with the
\* filters f
ApplyFilters ==
    /\ probe = NoFrame
    /\ \E f \in FilterValues :
           LET scheduleData == Entries(QueryDocs(Suburb("s1")), Suburb("s1"))
           IN  probe' = [fn |-> "applyFilters", filters |-> f,
                         input |-> scheduleData,
                         out |-> applyFilters(scheduleData, f)]
    /\ UNCHANGED <<view, now, agenda, schedules, selectedSuburb,
                   currentSchedule, timeRemaining, intervalSince, loading,
                   upcomingSchedules, calls, toasts, otherViews>>

\* the time range filter runs on the sessions of s1 once with each of the
\* three names and once with a value that is none of them
ApplyTimeRanges ==
    /\ probe = NoFrame
    /\ \E unknown \in UnknownRanges :
           LET scheduleData == Entries(QueryDocs(Suburb("s1")), Suburb("s1"))
               With(range)  == FilterTimeRange(scheduleData,
                                   [NoFilters EXCEPT !.timeRange = range])
           IN  probe' = [fn |-> "timeRanges", input |-> scheduleData,
                         unknown   |-> unknown,
                         morning   |-> With("morning"),
                         afternoon |-> With("afternoon"),
                         evening   |-> With("evening"),
                         other     |-> With(unknown)]
    /\ UNCHANGED <<view, now, agenda, schedules, selectedSuburb,
                   currentSchedule, timeRemaining, intervalSince, loading,
                   upcomingSchedules, calls, toasts, otherViews>>

InitFilter ==
    /\ view = "ScheduleSearch"
    /\ agenda = {}
    /\ now = At(1, 10, 0, 0)
    /\ schedules \in FilterDatabases
    /\ InitCommon

NextFilter == ApplyFilters \/ ApplyTimeRanges

SpecFilter == InitFilter /\ [][NextFilter]_vars

---------------------------------------------------------------------------
(* Numbers of the layout: IEEE 754 doubles *)

\* The layout functions of WeeklyView divide, so their values are not whole
\* numbers and JavaScript's double arithmetic has to be followed bit by bit.
\* The magnitude of a double is kept as a sequence of IntBits + FracBits
\* binary digits, most significant first, the binary point after the first
\* IntBits of them; every double the layout computes fits.  A double is
\* NotANumber or a record [neg, mag].
IntBits == 14
FracBits == 62
MantissaBits == 53

Width == IntBits + FracBits

NotANumber == [nan |-> TRUE]

Zeros(n) == [k \in 1..n |-> 0]

\* the integer n as len binary digits
IntToBits(n, len) == [k \in 1..len |-> (n \div 2 ^ (len - k)) % 2]

\* the magnitude of the whole number n
FromInt(n) == IntToBits(n, IntBits) \o Zeros(FracBits)

RECURSIVE PowerOfTwoMod(_, _)
\* 2^k modulo d, by repeated squaring
PowerOfTwoMod(k, d) ==
    IF k = 0 THEN 1 % d
    ELSE LET h == PowerOfTwoMod(k \div 2, d)
         IN  (h * h * (IF k % 2 = 1 THEN 2 ELSE 1)) % d

\* the first n binary digits of r / d behind the point, for 0 <= r < d: long
\* division, digit k being decided by the remainder left before it
QuotientBits(r, d, n) ==
    [k \in 1..n |->
        IF 2 * ((r * PowerOfTwoMod(k - 1, d)) % d) >= d THEN 1 ELSE 0]

\* what is left of r / d behind those n digits, as a remainder
QuotientRest(r, d, n) == (r * PowerOfTwoMod(n, d)) % d

\* the position of the leading 1, 0 when there is none
Leading(bits) ==
    IF \A k \in 1..Len(bits) : bits[k] = 0 THEN 0
    ELSE CHOOSE k \in 1..Len(bits) :
             bits[k] = 1 /\ \A j \in 1..(k - 1) : bits[j] = 0

\* bits plus one unit of position k: the carry runs up to the nearest 0
Increment(bits, k) ==
    IF \A j \in 1..k : bits[j] = 1 THEN bits
    ELSE LET z == CHOOSE j \in 1..k :
                      bits[j] = 0 /\ \A i \in (j + 1)..k : bits[i] = 1
         IN  [j \in 1..Len(bits) |->
                 IF j = z THEN 1
                 ELSE IF j > z /\ j <= k THEN 0
                 ELSE bits[j]]

\* the exact magnitude bits (plus something smaller than its last digit when
\* sticky) rounded to a double: MantissaBits significant digits, to nearest,
\* ties to even
RoundToDouble(bits, sticky) ==
    LET p    == Leading(bits)
        last == p + MantissaBits - 1
    IN  IF p = 0 \/ last >= Width THEN bits
        ELSE LET guard == bits[last + 1]
                 rest  == sticky \/ \E k \in (last + 2)..Width : bits[k] = 1
                 trunc == [k \in 1..Width |-> IF k <= last THEN bits[k] ELSE 0]
             IN  IF guard = 1 /\ (rest \/ bits[last] = 1)
                 THEN Increment(trunc, last) ELSE trunc

\* the carry into digit k of a + b: some lower digit generates one and every
\* digit between passes it on
Carry(a, b, k) ==
    IF \E j \in (k + 1)..Width :
           /\ a[j] = 1 /\ b[j] = 1
           /\ \A i \in (k + 1)..(j - 1) : a[i] # b[i]
    THEN 1 ELSE 0

AddBits(a, b) == [k \in 1..Width |-> (a[k] + b[k] + Carry(a, b, k)) % 2]

\* the borrow from digit k of a - b, for a >= b
Borrow(a, b, k) ==
    IF \E j \in (k + 1)..Width :
           /\ a[j] = 0 /\ b[j] = 1
           /\ \A i \in (k + 1)..(j - 1) : a[i] = b[i]
    THEN 1 ELSE 0

SubBits(a, b) == [k \in 1..Width |-> (a[k] - b[k] - Borrow(a, b, k)) % 2]

\* bits times 2^n
ShiftLeft(bits, n) == SubSeq(bits, n + 1, Width) \o Zeros(n)

\* a < b as magnitudes
LessBits(a, b) ==
    \E k \in 1..Width :
        a[k] < b[k] /\ \A j \in 1..(k - 1) : a[j] = b[j]

\* the double of a whole number n >= 0
DoubleOf(n) == [neg |-> FALSE, mag |-> FromInt(n)]

\* Number(s) of a string: 0 for the empty string, the value of a string of
\* digits, NaN for anything else
Number(s) ==
    IF \A k \in 1..Len(s) : IsDigit(s[k]) THEN DigitsValue(0, s) ELSE NaN

\* m / 60 for a whole number m >= 0
DividedBy60(m) ==
    RoundToDouble(IntToBits(m \div 60, IntBits)
                      \o QuotientBits(m % 60, 60, FracBits),
                  QuotientRest(m % 60, 60, FracBits) # 0)

\* x * 60 for a magnitude x, 60 x being 64 x - 4 x
Times60(x) ==
    RoundToDouble(SubBits(ShiftLeft(x, 6), ShiftLeft(x, 2)), FALSE)

---------------------------------------------------------------------------
(* WeeklyView: the layout of a session block *)

\* getSchedulePosition(time): (hours + minutes / 60) * 60
getSchedulePosition(time) ==
    LET parts   == SplitColon(time)
        hours   == Number(parts[1])
        minutes == IF Len(parts) >= 2 THEN Number(parts[2]) ELSE NaN
    IN  IF hours = NaN \/ minutes = NaN THEN NotANumber
        ELSE LET sum == RoundToDouble(
                            AddBits(FromInt(hours), DividedBy60(minutes)),
                            FALSE)
             IN  [neg |-> FALSE, mag |-> Times60(sum)]

\* getScheduleHeight(startTime, endTime): endMinutes - startMinutes
getScheduleHeight(startTime, endTime) ==
    LET startMinutes == getSchedulePosition(startTime)
        endMinutes   == getSchedulePosition(endTime)
    IN  IF startMinutes = NotANumber \/ endMinutes = NotANumber
        THEN NotANumber
        ELSE IF LessBits(endMinutes.mag, startMinutes.mag)
        THEN [neg |-> TRUE,
              mag |-> RoundToDouble(
                          SubBits(startMinutes.mag, endMinutes.mag), FALSE)]
        ELSE [neg |-> FALSE,
              mag |-> RoundToDouble(
                          SubBits(endMinutes.mag, startMinutes.mag), FALSE)]

---------------------------------------------------------------------------
(* The time utilities on their own, continued: times that are parsed *)

\* the minutes past the hour of the times the layout is probed with
LayoutMinutes == {0, 1, 30, 59}

\* well-formed times "HH:MM" of the whole day
LayoutTimes == {TimeStr(h, m) : h \in 0..23, m \in LayoutMinutes}

\* the hours of the sessions whose height is probed
LayoutHours == {0, 1, 8, 12, 17, 23}

\* the start and end times of the sessions whose height is probed
LayoutEnds == {TimeStr(h, m) : h \in LayoutHours, m \in LayoutMinutes}

\* strings that are no 24-hour "HH:MM": hour or minute out of range, no
\* digits, no colon, empty
MalformedTimes ==
    {TimeStr(24, 0), TimeStr(25, 0), TimeStr(12, 60),
     <<"a", "b", ":", "c", "d">>, <<"0", "8", "0", "0">>, <<>>}

\* the block of a session is positioned by its startTime
ApplyGetSchedulePosition ==
    /\ probe = NoFrame
    /\ \E time \in LayoutTimes \cup MalformedTimes :
           probe' = [fn |-> "getSchedulePosition", arg |-> time,
                     out |-> getSchedulePosition(time)]
    /\ UNCHANGED <<view, now, agenda, schedules, selectedSuburb,
                   currentSchedule, timeRemaining, intervalSince, loading,
                   upcomingSchedules, calls, toasts, otherViews>>

\* the block of a session is sized by its startTime and endTime
ApplyGetScheduleHeight ==
    /\ probe = NoFrame
    /\ \E startTime \in LayoutEnds, endTime \in LayoutEnds :
           probe' = [fn |-> "getScheduleHeight", arg |-> startTime,
                     endTime |-> endTime,
                     out |-> getScheduleHeight(startTime, endTime)]
    /\ UNCHANGED <<view, now, agenda, schedules, selectedSuburb,
                   currentSchedule, timeRemaining, intervalSince, loading,
                   upcomingSchedules, calls, toasts, otherViews>>

\* getTimeUntilStart is called for a session of the day after today whose
\* startTime is no time
ApplyGetTimeUntilStart ==
    /\ probe = NoFrame
    /\ \E time \in MalformedTimes :
           LET day == WeekdayNames[((getDay(now) + 1) % 7) + 1]
           IN  probe' = [fn |-> "getTimeUntilStart", day |-> day,
                         arg |-> time,
                         out |-> getTimeUntilStart(day, time, now)]
    /\ UNCHANGED <<view, now, agenda, schedules, selectedSuburb,
                   currentSchedule, timeRemaining, intervalSince, loading,
                   upcomingSchedules, calls, toasts, otherViews>>

\* the countdown interval fires on a current session whose endTime is no
\* time
ApplyCountdownTick ==
    /\ probe = NoFrame
    /\ \E time \in MalformedTimes :
           LET session == Session(toLocaleDateString(now), TimeStr(9, 0),
                                  time, 2)
           IN  probe' = [fn |-> "countdown", arg |-> time,
                         out |-> CountdownTick(session, now, "")]
    /\ UNCHANGED <<view, now, agenda, schedules, selectedSuburb,
                   currentSchedule, timeRemaining, intervalSince, loading,
                   upcomingSchedules, calls, toasts, otherViews>>

InitParsing ==
    /\ view = "WeeklyView"
    /\ agenda = {}
    /\ now = At(1, 10, 0, 0)
    /\ schedules = <<>>
    /\ InitCommon

NextParsing ==
    \/ ApplyGetSchedulePosition
    \/ ApplyGetScheduleHeight
    \/ ApplyGetTimeUntilStart
    \/ ApplyCountdownTick

SpecParsing == InitParsing /\ [][NextParsing]_vars

---------------------------------------------------------------------------
(* Vocabulary of the properties: times as numbers *)

\* minutes since midnight of a well-formed "HH:MM"
MinutesSinceMidnight(time) ==
    60 * (10 * DigitVal(time[1]) + DigitVal(time[2]))
    + 10 * DigitVal(time[4]) + DigitVal(time[5])

\* minutes since midnight of an instant, its seconds dropped
MinuteOfDay(d) == (d % DaySeconds) \div 60

\* whether the instant d lies in the window of session s: on its weekday,
\* from its start (inclusive) to its end (exclusive), to the minute
WindowContains(s, d) ==
    /\ DayIndexOf(s.day) = (d \div DaySeconds) % 7
    /\ MinutesSinceMidnight(s.startTime) <= MinuteOfDay(d)
    /\ MinuteOfDay(d) < MinutesSinceMidnight(s.endTime)

\* the sessions the store holds for a suburb, in iteration order
SessionsOf(suburb) == Entries(QueryDocs(suburb), suburb)

\* the positions of the sessions of a suburb whose window contains d
ActiveAt(suburb, d) ==
    {k \in 1..Len(SessionsOf(suburb)) : WindowContains(SessionsOf(suburb)[k], d)}

Largest(S) == CHOOSE k \in S : \A j \in S : j <= k

\* call i is a resolution of the active session that ends in this step
ResolutionEnds(i) == checkScheduleDone(i) \/ checkCurrentScheduleDone(i)

\* the view shows a session as active
ShownActive ==
    /\ selectedSuburb # NULL
    /\ currentSchedule # NULL
    /\ view = "StatusCheck" => ~loading

---------------------------------------------------------------------------
(* C1 *)

\* C1: a resolution started at instant T yields a session only if that
\* session is one of the suburb's, its day is the weekday of T and
\* startTime <= time(T) < endTime; it yields none when no session of the
\* suburb satisfies this.
C1_ResolutionSound ==
    [][\A i \in 1..Len(calls) :
          ResolutionEnds(i) =>
              LET T == calls[i].now
                  suburb == calls[i].suburb
              IN  /\ currentSchedule' # NULL =>
                        /\ \E k \in 1..Len(SessionsOf(suburb)) :
                               SessionsOf(suburb)[k] = currentSchedule'
                        /\ WindowContains(currentSchedule', T)
                  /\ ActiveAt(suburb, T) = {} => currentSchedule' = NULL]_vars

\* a session is resolved as active while the suburb also has a session of
\* another weekday, and the clock has not moved since
C1_Witness ==
    /\ ShownActive
    /\ timeRemaining = ""
    /\ WindowContains(currentSchedule, now)
    /\ \E k \in 1..Len(SessionsOf(selectedSuburb)) :
           SessionsOf(selectedSuburb)[k].day # currentSchedule.day

---------------------------------------------------------------------------
(* C2 *)

\* the instant d is exactly the end of session s, whatever the weekday
AtEndOf(s, d) == d % DaySeconds = 60 * MinutesSinceMidnight(s.endTime)

\* C2: endTime is exclusive on every path: a resolution started exactly at a
\* session's endTime does not return that session, and a countdown tick that
\* runs exactly at the current session's endTime clears it.
C2_EndExclusive ==
    [][/\ \A i \in 1..Len(calls) :
              ResolutionEnds(i) /\ currentSchedule' # NULL
                  => ~AtEndOf(currentSchedule', calls[i].now)
       /\ (Tick /\ AtEndOf(currentSchedule, now))
              => currentSchedule' = NULL]_vars

---------------------------------------------------------------------------
(* C3 *)

\* C3: when several sessions of the suburb are active at the instant of the
\* resolution, the result is the one that comes last in iteration order.
C3_LastActiveWins ==
    [][\A i \in 1..Len(calls) :
          ResolutionEnds(i) /\ ActiveAt(calls[i].suburb, calls[i].now) # {}
              => currentSchedule' =
                     SessionsOf(calls[i].suburb)
                         [Largest(ActiveAt(calls[i].suburb, calls[i].now))]]_vars

\* two sessions of the selected suburb overlap now, an earlier one among
\* them, and the later one in iteration order is the one shown
C3_Witness ==
    /\ ShownActive
    /\ timeRemaining = ""
    /\ Cardinality(ActiveAt(selectedSuburb, now)) >= 2
    /\ currentSchedule =
           SessionsOf(selectedSuburb)[Largest(ActiveAt(selectedSuburb, now))]

---------------------------------------------------------------------------
(* C4 *)

\* C4: whenever a session is shown as active, the remaining text shown with
\* it is the label of minutesSinceMidnight(endTime) - nowMinutes at the
\* current instant.
C4_LabelIsCurrent ==
    ShownActive =>
        timeRemaining =
            durationLabel(MinutesSinceMidnight(currentSchedule.endTime)
                          - MinuteOfDay(now)) \o " remaining"

---------------------------------------------------------------------------
(* C5 *)

\* C5: durationLabel(m) is "{h}h {r}m" with h = m div 60 and r = m mod 60
\* when h > 0 and "{r}m" when h = 0; durationLabel(0) is "0m" and
\* durationLabel(60) is "1h 0m".
C5_DurationLabel ==
    probe.fn = "durationLabel" =>
        LET m == probe.arg
            h == m \div 60
            r == m % 60
        IN  /\ h > 0 => probe.out = ToString(h) \o "h " \o ToString(r) \o "m"
            /\ h = 0 => probe.out = ToString(r) \o "m"
            /\ m = 0 => probe.out = "0m"
            /\ m = 60 => probe.out = "1h 0m"

C5_Witness ==
    probe.fn = "durationLabel" /\ probe.arg = 60 /\ probe.out = "1h 0m"

---------------------------------------------------------------------------
(* C6 *)

\* the day form "{d}d {h}h" of m minutes
DayForm(m) ==
    ToString(m \div 1440) \o "d " \o ToString((m \div 60) % 24) \o "h"

\* C6 as claimed: leadTimeLabel(m) equals durationLabel(m) for every m below
\* 1440, and is "{d}d {h}h" from 1440 on.
C6_LeadEqualsDuration ==
    probe.fn = "leadTimeLabel" =>
        /\ probe.arg < 1440 => probe.out = durationLabel(probe.arg)
        /\ probe.arg >= 1440 => probe.out = DayForm(probe.arg)

\* C6 as amended: below 1440 minutes leadTimeLabel(m) is "{h}h {r}m" with the
\* hour part always present ("0h 30m"), so it equals durationLabel(m) from 60
\* minutes on only; from 1440 minutes on it is "{d}d {h}h", the switch being
\* exactly at 24 hours; the seconds never matter; leadTimeLabel(1500) is
\* "1d 1h".
C6_LeadTimeLabel ==
    probe.fn = "leadTimeLabel" =>
        LET m == probe.arg
        IN  /\ m < 1440 =>
                probe.out = ToString(m \div 60) \o "h " \o ToString(m % 60) \o "m"
            /\ (60 <= m /\ m < 1440) => probe.out = durationLabel(m)
            /\ m >= 1440 => probe.out = DayForm(m)
            /\ m = 1439 => probe.out = "23h 59m"
            /\ m = 1440 => probe.out = "1d 0h"
            /\ m = 1500 => probe.out = "1d 1h"

C6_Witness ==
    /\ probe.fn = "leadTimeLabel"
    /\ probe.arg = 30
    /\ probe.sec = 59
    /\ probe.out = "0h 30m"

---------------------------------------------------------------------------
(* C7 *)

\* the index of a weekday name, Sunday = 0 .. Saturday = 6
WeekdayIndex(day) ==
    CASE day = "Sunday" -> 0 [] day = "Monday" -> 1 [] day = "Tuesday" -> 2
      [] day = "Wednesday" -> 3 [] day = "Thursday" -> 4
      [] day = "Friday" -> 5 [] day = "Saturday" -> 6

\* C7: dayOffset(target, reference) is (index(target) + 7 - index(reference))
\* mod 7, lies in 0..6, is 0 when both are the same weekday, and is the
\* number of days after which the reference weekday becomes the target.
C7_DayOffset ==
    probe.fn = "getDayOffset" =>
        LET target    == WeekdayIndex(probe.arg)
            reference == (now \div DaySeconds) % 7
        IN  /\ probe.out = (target + 7 - reference) % 7
            /\ probe.out \in 0..6
            /\ target = reference => probe.out = 0
            /\ (reference + probe.out) % 7 = target

\* the week wraps: from Saturday to Sunday is one day
C7_Witness ==
    /\ probe.fn = "getDayOffset"
    /\ probe.arg = "Sunday"
    /\ (now \div DaySeconds) % 7 = 6
    /\ probe.out = 1

---------------------------------------------------------------------------
(* Vocabulary of the properties: the upcoming list *)

\* the weekday index of an instant, Sunday = 0
WeekdayOf(d) == (d \div DaySeconds) % 7

\* days from the weekday of instant d forward to the weekday named day
DaysAhead(day, d) == (WeekdayIndex(day) + 7 - WeekdayOf(d)) % 7

\* the selection rule: the session falls later on the day of instant T, or
\* on a later day of the seven-day cycle that starts at T
RuleUpcoming(session, T) ==
    \/ /\ WeekdayIndex(session.day) = WeekdayOf(T)
       /\ MinutesSinceMidnight(session.startTime) > MinuteOfDay(T)
    \/ DaysAhead(session.day, T) > 0

\* the candidate list call c builds when its data arrives now, before and
\* after the sort
Candidates(c) ==
    UpcomingLoop(SessionsOf(c.suburb), c.currentDay, c.currentTime, now)

SortedCandidates(c) == SortUpcoming(Candidates(c), now)

\* a list entry without its lead time is the session it was made from
SameSession(entry, session) ==
    /\ entry.id = session.id
    /\ entry.day = session.day
    /\ entry.startTime = session.startTime
    /\ entry.endTime = session.endTime
    /\ entry.level = session.level
    /\ entry.suburbId = session.suburbId

\* (offset, startTime) of a is not after that of b, offsets counted from the
\* weekday of instant d
KeyLeq(a, b, d) ==
    \/ DaysAhead(a.day, d) < DaysAhead(b.day, d)
    \/ /\ DaysAhead(a.day, d) = DaysAhead(b.day, d)
       /\ StrLeq(a.startTime, b.startTime)

---------------------------------------------------------------------------
(* C8 *)

\* C8: when the data of a checkUpcomingSchedules call started at instant T
\* arrives, a session of the suburb is placed in the candidate list if and
\* only if it satisfies the selection rule for T.
C8_CandidateRule ==
    [][\A i \in 1..Len(calls) :
          checkUpcomingSchedulesDone(i) =>
              \A k \in 1..Len(SessionsOf(calls[i].suburb)) :
                  LET session == SessionsOf(calls[i].suburb)[k]
                  IN  (\E j \in 1..Len(Candidates(calls[i])) :
                           SameSession(Candidates(calls[i])[j], session))
                      <=> RuleUpcoming(session, calls[i].now)]_vars

---------------------------------------------------------------------------
(* C9 *)

\* C9: the stored upcoming list is sorted by (dayOffset, startTime), the
\* offsets counted from today, be it the day the call started or the day its
\* data arrived.
C9_UpcomingSorted ==
    [][\A i \in 1..Len(calls) :
          checkUpcomingSchedulesDone(i) =>
              \A j \in 1..(Len(upcomingSchedules') - 1) :
                  /\ KeyLeq(upcomingSchedules'[j], upcomingSchedules'[j + 1],
                            now)
                  /\ KeyLeq(upcomingSchedules'[j], upcomingSchedules'[j + 1],
                            calls[i].now)]_vars

\* a stored list of three that the store holds in another order: the first
\* two on different days, the last two on one day
C9_Witness ==
    /\ Len(upcomingSchedules) = 3
    /\ upcomingSchedules[1].day # upcomingSchedules[2].day
    /\ upcomingSchedules[2].day = upcomingSchedules[3].day
    /\ upcomingSchedules[2].startTime # upcomingSchedules[3].startTime
    /\ \E k \in 1..Len(SessionsOf(selectedSuburb)) :
           /\ SameSession(upcomingSchedules[1], SessionsOf(selectedSuburb)[k])
           /\ \E j \in 1..(k - 1) :
                  SameSession(upcomingSchedules[3],
                              SessionsOf(selectedSuburb)[j])

---------------------------------------------------------------------------
(* C10 *)

\* C10: the stored upcoming list has min(3, n) entries, n the number of
\* sessions placed in the candidate list, never more than 3; they are the
\* first entries of the sorted candidate list; no candidate gives the empty
\* list.
C10_UpcomingTruncated ==
    [][\A i \in 1..Len(calls) :
          checkUpcomingSchedulesDone(i) =>
              LET n == Cardinality(
                           {k \in 1..Len(SessionsOf(calls[i].suburb)) :
                               IsUpcoming(SessionsOf(calls[i].suburb)[k],
                                          calls[i].currentDay,
                                          calls[i].currentTime, now)})
              IN  /\ Len(upcomingSchedules') <= 3
                  /\ Len(upcomingSchedules') = Min(3, n)
                  /\ \A j \in 1..Len(upcomingSchedules') :
                         upcomingSchedules'[j] = SortedCandidates(calls[i])[j]
                  /\ n = 0 => upcomingSchedules' = <<>>]_vars

\* three entries are stored while the suburb has four sessions that follow
\* now within the week
C10_Witness ==
    /\ Len(upcomingSchedules) = 3
    /\ selectedSuburb # NULL
    /\ Cardinality({k \in 1..Len(SessionsOf(selectedSuburb)) :
                       RuleUpcoming(SessionsOf(selectedSuburb)[k], now)}) >= 4

---------------------------------------------------------------------------
(* C11 *)

\* seconds from instant d to the start of entry e, taken as the day of d plus
\* DaysAhead days, at startTime
LeadSeconds(e, d) ==
    DaysAhead(e.day, d) * DaySeconds
    + 60 * MinutesSinceMidnight(e.startTime) - (d % DaySeconds)

\* C11: when the upcoming list is stored, the lead time of each entry is
\* leadTimeLabel of the whole minutes from now to its start (today +
\* dayOffset days, at startTime), and the start lies strictly after now; a
\* Wednesday 06:00 session on Monday 10:00 gets "1d 20h".
C11_LeadTime ==
    [][\A i \in 1..Len(calls) :
          checkUpcomingSchedulesDone(i) =>
              \A j \in 1..Len(upcomingSchedules') :
                  LET e == upcomingSchedules'[j]
                  IN  /\ LeadSeconds(e, now) > 0
                      /\ e.timeUntilStart =
                             leadTimeLabel(60 * (LeadSeconds(e, now) \div 60))
                      /\ (/\ e.day = "Wednesday"
                           /\ e.startTime = TimeStr(6, 0)
                           /\ now = At(1, 10, 0, 0))
                              => e.timeUntilStart = "1d 20h"]_vars

---------------------------------------------------------------------------
(* C12 *)

\* C12: the stored upcoming list is ordered most imminent first: of two
\* consecutive entries the first has no more minutes to go than the second.
C12_MostImminentFirst ==
    [][\A i \in 1..Len(calls) :
          checkUpcomingSchedulesDone(i) =>
              \A j \in 1..(Len(upcomingSchedules') - 1) :
                  LeadSeconds(upcomingSchedules'[j], now) \div 60
                      <= LeadSeconds(upcomingSchedules'[j + 1], now) \div 60]_vars

\* a stored list in which the week wraps: an entry of a later weekday index
\* comes before one of an earlier index, and it does start sooner
C12_Witness ==
    /\ calls = <<>>
    /\ \E j \in 1..(Len(upcomingSchedules) - 1) :
           /\ WeekdayIndex(upcomingSchedules[j].day)
                  > WeekdayIndex(upcomingSchedules[j + 1].day)
           /\ LeadSeconds(upcomingSchedules[j], now)
                  < LeadSeconds(upcomingSchedules[j + 1], now)

---------------------------------------------------------------------------
(* C13 *)

\* the sessions a fetchWeeklySchedules call reads for its suburb
WeekInput(c) == SessionsOf(c.suburb)

\* every session of the list falls on one of the seven weekdays
OnWeekdays(entries) ==
    \A k \in 1..Len(entries) : \E j \in 1..7 : WeekdayNames[j] = entries[k].day

\* w is a week: seven groups, Monday first, Sunday last
IsWeek(w) ==
    /\ Len(w) = 7
    /\ w[1].day = "Monday" /\ w[2].day = "Tuesday" /\ w[3].day = "Wednesday"
    /\ w[4].day = "Thursday" /\ w[5].day = "Friday"
    /\ w[6].day = "Saturday" /\ w[7].day = "Sunday"

\* C13: a load of the week whose sessions fall on weekdays stores exactly 7
\* day groups in the order Monday .. Sunday, whichever of the days have
\* sessions; with no session all 7 groups are there and empty.
C13_SevenGroups ==
    [][\A i \in 1..Len(calls) :
          (fetchWeeklySchedulesDone(i) /\ OnWeekdays(WeekInput(calls[i]))) =>
              /\ IsWeek(weeklySchedules')
              /\ WeekInput(calls[i]) = <<>> =>
                     \A k \in 1..7 : weeklySchedules'[k].schedules = <<>>]_vars

\* a stored week of which some days have sessions and some have none
C13_Witness ==
    /\ IsWeek(weeklySchedules)
    /\ \E k \in 1..7 : weeklySchedules[k].schedules # <<>>
    /\ \E k \in 1..7 : weeklySchedules[k].schedules = <<>>

---------------------------------------------------------------------------
(* C14 *)

\* C14: in every day group of a stored week the sessions are in ascending
\* startTime order.
C14_GroupsAscending ==
    [][\A i \in 1..Len(calls) :
          fetchWeeklySchedulesDone(i) =>
              \A k \in 1..Len(weeklySchedules') :
                  LET g == weeklySchedules'[k].schedules
                  IN  \A j \in 1..(Len(g) - 1) :
                          /\ MinutesSinceMidnight(g[j].startTime)
                                 <= MinutesSinceMidnight(g[j + 1].startTime)
                          /\ StrLeq(g[j].startTime, g[j + 1].startTime)]_vars

\* a stored group whose first session the store holds after its second
C14_Witness ==
    /\ selectedSuburb # NULL
    /\ calls = <<>>
    /\ \E k \in 1..Len(weeklySchedules) :
           LET g == weeklySchedules[k].schedules
               e == SessionsOf(selectedSuburb)
           IN  /\ Len(g) >= 2
               /\ g[1].startTime # g[2].startTime
               /\ \E a, b \in 1..Len(e) :
                      a < b /\ e[a] = g[2] /\ e[b] = g[1]

---------------------------------------------------------------------------
(* C15 *)

\* how many times x occurs in the sequence
Occurrences(x, seq) == Cardinality({k \in 1..Len(seq) : seq[k] = x})

\* C15: a stored week partitions the sessions read: each session is in the
\* group of its day as often as it was read, unchanged, and in no other
\* group; overlapping sessions of one day stay separate entries.
C15_WeekPartitions ==
    [][\A i \in 1..Len(calls) :
          (fetchWeeklySchedulesDone(i) /\ OnWeekdays(WeekInput(calls[i]))) =>
              LET e == WeekInput(calls[i])
              IN  \A k \in 1..7 :
                      LET g == weeklySchedules'[k].schedules
                      IN  /\ \A j \in 1..Len(g) :
                                 /\ g[j].day = weeklySchedules'[k].day
                                 /\ Occurrences(g[j], g) = Occurrences(g[j], e)
                          /\ \A j \in 1..Len(e) :
                                 e[j].day = weeklySchedules'[k].day =>
                                     Occurrences(e[j], g) = Occurrences(e[j], e)]_vars

\* a stored Monday group that holds two sessions with one start and
\* overlapping windows
C15_Witness ==
    /\ IsWeek(weeklySchedules)
    /\ \E a, b \in 1..Len(weeklySchedules[1].schedules) :
           LET g == weeklySchedules[1].schedules
           IN  /\ a < b
               /\ g[a].startTime = g[b].startTime
               /\ g[a].endTime # g[b].endTime

---------------------------------------------------------------------------
(* C16 *)

\* a valid 24-hour "HH:MM"
WellFormed(time) ==
    /\ Len(time) = 5
    /\ IsDigit(time[1]) /\ IsDigit(time[2]) /\ time[3] = ":"
    /\ IsDigit(time[4]) /\ IsDigit(time[5])
    /\ 10 * DigitVal(time[1]) + DigitVal(time[2]) <= 23
    /\ 10 * DigitVal(time[4]) + DigitVal(time[5]) <= 59

\* the double x is a number in [0, n)
InRange(x, n) == x # NotANumber /\ ~x.neg /\ LessBits(x.mag, FromInt(n))

\* the layout values of a session with valid times and startTime < endTime
\* lie in the day: topOffset in [0, 1440), blockHeight > 0 and
\* topOffset + blockHeight <= 1440
LayoutInDay ==
    /\ (probe.fn = "getSchedulePosition" /\ WellFormed(probe.arg)) =>
           InRange(probe.out, 1440)
    /\ (/\ probe.fn = "getScheduleHeight"
        /\ MinutesSinceMidnight(probe.arg)
               < MinutesSinceMidnight(probe.endTime)) =>
           /\ probe.out # NotANumber
           /\ ~probe.out.neg
           /\ probe.out.mag # FromInt(0)
           /\ LessBits(RoundToDouble(
                           AddBits(getSchedulePosition(probe.arg).mag,
                                   probe.out.mag), FALSE),
                       FromInt(1441))

\* C16: for valid times and startTime < endTime, topOffset is
\* 60 * startHour + startMinute and blockHeight is (60 * endHour + endMinute)
\* - topOffset, and both lie in the day.
C16_Layout ==
    /\ LayoutInDay
    /\ (probe.fn = "getSchedulePosition" /\ WellFormed(probe.arg)) =>
           probe.out = DoubleOf(MinutesSinceMidnight(probe.arg))
    /\ (/\ probe.fn = "getScheduleHeight"
        /\ MinutesSinceMidnight(probe.arg)
               < MinutesSinceMidnight(probe.endTime)) =>
           probe.out = DoubleOf(MinutesSinceMidnight(probe.endTime)
                                - MinutesSinceMidnight(probe.arg))

---------------------------------------------------------------------------
(* C17 *)

\* the sessions a fetchSchedules call reads for its suburb
SearchInput(c) == SessionsOf(c.suburb)

\* the position of a weekday name in the week, Monday = 0 .. Sunday = 6
MondayFirst(day) == (WeekdayIndex(day) + 6) % 7

\* the list runs by day, Monday to Sunday, and within a day by startTime
DayAndTimeOrdered(list) ==
    \A j \in 1..(Len(list) - 1) :
        \/ MondayFirst(list[j].day) < MondayFirst(list[j + 1].day)
        \/ /\ list[j].day = list[j + 1].day
           /\ MinutesSinceMidnight(list[j].startTime)
                  <= MinutesSinceMidnight(list[j + 1].startTime)

\* the sessions of the list that share day and startTime with x, in the
\* order of the list
SlotOf(x, list) ==
    SelectSeq(list, LAMBDA e : e.day = x.day /\ e.startTime = x.startTime)

\* result holds the sessions of input, each as often and unchanged, and the
\* sessions of one day and startTime in the order input has them
KeepsSessionsOf(result, input) ==
    /\ \A k \in 1..Len(input) : SlotOf(input[k], result) = SlotOf(input[k], input)
    /\ \A k \in 1..Len(result) :
           SlotOf(result[k], result) = SlotOf(result[k], input)

\* C17 as stated: with no filter field set the list stored by a load is the
\* sequence of sessions read, in content and order.
C17_NoFilterIdentity ==
    [][\A i \in 1..Len(calls) :
          (fetchSchedulesDone(i) /\ calls[i].filters = NoFilters) =>
              scheduleList' = SearchInput(calls[i])]_vars

\* C17, amended: with no filter field set the list stored by a load holds
\* exactly the sessions read, ordered by day (Monday to Sunday) and
\* startTime, sessions of one day and startTime in the order read; it is the
\* sequence read when that sequence is already so ordered.
C17_NoFilterSorted ==
    [][\A i \in 1..Len(calls) :
          (fetchSchedulesDone(i) /\ calls[i].filters = NoFilters) =>
              LET input == SearchInput(calls[i])
              IN  /\ KeepsSessionsOf(scheduleList', input)
                  /\ DayAndTimeOrdered(scheduleList')
                  /\ DayAndTimeOrdered(input) => scheduleList' = input]_vars

\* no filter is set and the list holds all the sessions of the suburb, in
\* another order than the store
C17_Witness ==
    /\ calls = <<>>
    /\ filters = NoFilters
    /\ selectedSuburb # NULL
    /\ scheduleList # <<>>
    /\ KeepsSessionsOf(scheduleList, SessionsOf(selectedSuburb))
    /\ scheduleList # SessionsOf(selectedSuburb)

---------------------------------------------------------------------------
(* C18 *)

\* the hours of the day a named time band accepts
BandHours(timeRange) ==
    CASE timeRange = "morning"   -> 4..11
      [] timeRange = "afternoon" -> 12..17
      [] timeRange = "evening"   -> (18..23) \cup (0..3)

\* the hour of a well-formed "HH:MM"
HourOf(time) == MinutesSinceMidnight(time) \div 60

\* the session has the day of the filter, when one is set
SatisfiesDay(s, f) == f.day = "" \/ s.day = f.day

\* the session has the level the filter names, when one is set
SatisfiesLevel(s, f) ==
    f.level = <<>> \/ \E n \in 0..9 : f.level = <<Digits[n + 1]>> /\ s.level = n

\* the session starts in the band of the filter, when one is set
SatisfiesTimeRange(s, f) ==
    f.timeRange = "" \/ HourOf(s.startTime) \in BandHours(f.timeRange)

\* the input sessions that satisfy every set field of f, in input order
Matching(input, f) ==
    SelectSeq(input, LAMBDA s : /\ SatisfiesDay(s, f)
                                /\ SatisfiesLevel(s, f)
                                /\ SatisfiesTimeRange(s, f))

\* C18 as stated: the list stored by a load is the sequence of the sessions
\* read that satisfy every set filter field, in the order read.
C18_FilteredInInputOrder ==
    [][\A i \in 1..Len(calls) :
          fetchSchedulesDone(i) =>
              scheduleList' = Matching(SearchInput(calls[i]), calls[i].filters)]_vars

\* C18, amended: the list stored by a load holds exactly the sessions read
\* that satisfy every set filter field, ordered by day (Monday to Sunday)
\* and startTime, sessions of one day and startTime in the order read; a
\* day filter "Monday" leaves only Monday sessions, and no match leaves the
\* empty list.
C18_FilteredSorted ==
    [][\A i \in 1..Len(calls) :
          fetchSchedulesDone(i) =>
              LET f     == calls[i].filters
                  match == Matching(SearchInput(calls[i]), f)
              IN  /\ KeepsSessionsOf(scheduleList', match)
                  /\ DayAndTimeOrdered(scheduleList')
                  /\ f.day = "Monday" =>
                         \A k \in 1..Len(scheduleList') :
                             scheduleList'[k].day = "Monday"
                  /\ match = <<>> => scheduleList' = <<>>]_vars

\* all three fields are set and the list holds the matching sessions of the
\* suburb, several of them, in another order than the store
C18_Witness ==
    /\ calls = <<>>
    /\ filters.day # "" /\ filters.level # <<>> /\ filters.timeRange # ""
    /\ selectedSuburb # NULL
    /\ Len(scheduleList) >= 2
    /\ Len(scheduleList) < Len(SessionsOf(selectedSuburb))
    /\ KeepsSessionsOf(scheduleList,
                       Matching(SessionsOf(selectedSuburb), filters))
    /\ scheduleList # Matching(SessionsOf(selectedSuburb), filters)

---------------------------------------------------------------------------
(* C19 *)

\* x is an element of the sequence
InSeq(x, seq) == \E k \in 1..Len(seq) : seq[k] = x

---------------------------------------------------------------------------
(* C20 *)

\* the operation of the probe ended in a MalformedTimeError instead of
\* returning a value
Rejected(p) ==
    /\ "error" \in DOMAIN p
    /\ p.error = "MalformedTimeError"

\* C20: a time that is not a valid 24-hour "HH:MM" makes every operation
\* that parses it (layout position, countdown, lead time) fail with a
\* MalformedTimeError; none returns a position or a label computed from it.
C20_MalformedRejected ==
    (/\ probe.fn \in {"getSchedulePosition", "getTimeUntilStart", "countdown"}
     /\ ~WellFormed(probe.arg)) => Rejected(probe)

---------------------------------------------------------------------------
(* C21 *)

\* the characters are the decimal digits of an integer
IsInteger(chars) ==
    Len(chars) >= 1 /\ \A k \in 1..Len(chars) : IsDigit(chars[k])

---------------------------------------------------------------------------
(* C22 *)

\* the upcoming list as a function of the sessions and one instant T: the
\* selection, the day offsets, the sort keys and the lead times all taken
\* at T
UpcomingAt(input, T) ==
    SliceUpcoming(
        SortUpcoming(
            UpcomingLoop(input, toLocaleDateString(T), toLocaleTimeString(T),
                         T),
            T))

\* C22: the list a checkUpcomingSchedules call stores is the upcoming list
\* of the sessions read at the one instant the call started, also when the
\* clock has moved on before the data arrived.
C22_SingleInstant ==
    [][\A i \in 1..Len(calls) :
          checkUpcomingSchedulesDone(i) =>
              upcomingSchedules'
                  = UpcomingAt(SessionsOf(calls[i].suburb), calls[i].now)]_vars

---------------------------------------------------------------------------
(* C23 *)

\* C23: after every countdown tick the session still shown as active falls
\* on the current weekday and the current time is before its endTime,
\* however long ago the previous tick was.
C23_TickKeepsToday ==
    [][(Tick /\ currentSchedule' # NULL) =>
          /\ WeekdayIndex(currentSchedule'.day) = WeekdayOf(now)
          /\ now % DaySeconds
                 < 60 * MinutesSinceMidnight(currentSchedule'.endTime)]_vars

---------------------------------------------------------------------------
(* C24 *)

\* a suburb is selected, no session is shown as active and no request is
\* waited for, while the clock is in the window of a session of the suburb
NoneShownInWindow ==
    /\ selectedSuburb # NULL
    /\ currentSchedule = NULL
    /\ calls = <<>>
    /\ ActiveAt(selectedSuburb, now) # {}

\* C24: when the status of the selected suburb was resolved as none active
\* and the clock is then in the window of one of its sessions, a session is
\* eventually shown as active.
C24_BecomesActive == NoneShownInWindow ~> (currentSchedule # NULL)

---------------------------------------------------------------------------
(* C25 *)

\* the first instant after T that falls on the weekday of the session at its
\* startTime
NextStart(session, T) ==
    LET first == (T - (T % DaySeconds))
                     + DaysAhead(session.day, T) * DaySeconds
                     + 60 * MinutesSinceMidnight(session.startTime)
    IN  IF first > T THEN first ELSE first + 7 * DaySeconds

\* the timers of the status view are set for half an hour before the next
\* start of their session, and only for a time that is still to come
StatusTimersRight ==
    (probe.fn = "scheduleNotifications" /\ view = "LoadSheddingStatus") =>
        \A timer \in probe.timers :
            /\ timer.at = NextStart(timer.session, timer.setAt) - 30 * 60
            /\ timer.at > timer.setAt

\* C25: every timer scheduleNotifications sets, in the status view and in
\* the schedule search, runs out 30 minutes before the next start of its
\* session on the session's weekday, and that time is later than the time
\* at which it was set.
C25_ReminderTimers ==
    probe.fn = "scheduleNotifications" =>
        \A timer \in probe.timers :
            /\ timer.at = NextStart(timer.session, timer.setAt) - 30 * 60
            /\ timer.at > timer.setAt

---------------------------------------------------------------------------
(* C26 *)

\* what fetchSchedules displays for a suburb under the filters f
Displayed(suburb, f) ==
    IF QueryDocs(suburb) = <<>> THEN <<>>
    ELSE SortByDayAndTime(applyFilters(Entries(QueryDocs(suburb), suburb), f))

\* C26: with one fetch in flight at a time, the list displayed when the
\* reload completes is the suburb's sessions filtered by the filter values
\* in force, which after a filter change are the values after the change.
C26_ReloadUsesNewFilters ==
    [][fetchSchedulesDone(1) =>
           scheduleList' = Displayed(calls[1].suburb, filters)]_vars

---------------------------------------------------------------------------
(* C27 *)

\* the sessions the mounted view displays
DisplayedSessions ==
    IF view = "ScheduleSearch"
    THEN {scheduleList[k] : k \in 1..Len(scheduleList)}
    ELSE IF view = "WeeklyView"
    THEN UNION {{weeklySchedules[g].schedules[k] :
                    k \in 1..Len(weeklySchedules[g].schedules)} :
                g \in 1..Len(weeklySchedules)}
    ELSE {upcomingSchedules[k] : k \in 1..Len(upcomingSchedules)}

\* C27: once no fetch is in flight, every session displayed belongs to the
\* suburb shown as selected, whatever the order in which the responses to
\* two selections arrived.
C27_DisplayedOfSelected ==
    (calls = <<>> /\ selectedSuburb # NULL) =>
        \A s \in DisplayedSessions : s.suburbId = selectedSuburb.id

---------------------------------------------------------------------------
(* C28 *)

\* C28: in the views that have a loading flag, loading is true exactly
\* while a fetch of the view is in flight.
C28_LoadingIffInFlight ==
    view \in {"StatusCheck", "ScheduleSearch", "WeeklyView"} =>
        (loading <=> calls # <<>>)

---------------------------------------------------------------------------
(* C30 *)

\* call i ends in this step without a week: its getDocs rejects, or a
\* session of its suburb has a day that is no weekday name
WeekLoadFails(i) ==
    \/ fetchWeeklySchedulesFailed(i)
    \/ /\ fetchWeeklySchedulesDone(i)
       /\ PushThrows(SessionsOf(calls[i].suburb))

\* a failed load of the week reports an error, ends the loading state and
\* leaves the week as it was
FailedLoadKeepsWeek ==
    [][\A i \in 1..MaxInFlight :
           WeekLoadFails(i) =>
               /\ "Error loading schedules" \in toasts'
               /\ loading' = FALSE
               /\ weeklySchedules' = weeklySchedules]_vars

\* C30: when a load of the week fails, an error is reported, loading is
\* false, weeklySchedules is the value it had, and the week then displayed
\* with the selected suburb holds sessions of that suburb only.
C30_FailedLoadOfWeek ==
    [][\A i \in 1..MaxInFlight :
           WeekLoadFails(i) =>
               /\ "Error loading schedules" \in toasts'
               /\ loading' = FALSE
               /\ weeklySchedules' = weeklySchedules
               /\ \A s \in DisplayedSessions' :
                      s.suburbId = selectedSuburb'.id]_vars

---------------------------------------------------------------------------
(* C29 *)

===========================================================================
